---- MODULE Spec2Model ----
(***************************************************************************)
(* Test Quality Scoring Engine of agentqa: the rule catalog                *)
(* (src/src/core/quality-rules.ts) and the reviewer                        *)
(* (src/src/core/quality-reviewer.ts).                                     *)
(*                                                                         *)
(* A file's content is a sequence of source lines (joined by "\n") drawn   *)
(* from a lexicon of concrete lines.  What each regular expression of the  *)
(* catalog finds in a line is tabulated in LineFacts; the detectors are    *)
(* translated over that table.  Deductions are kept in tenths, so that     *)
(* weight * 0.6 and weight * 0.3 are integers.                             *)
(***************************************************************************)
EXTENDS Integers, Sequences, FiniteSets, TLC

(***************************************************************************)
(* Bounds of the model.                                                    *)
(***************************************************************************)
\* longest content, in lines, handed to reviewTestFile directly
MaxLen == 2
\* most files one project run discovers
MaxFiles == 2
\* most reviewTestFile calls one caller makes in a row
MaxCalls == 3
\* latest instant of the clock
MaxClock == 1
\* most JSON outputs collected over successive project runs
MaxRuns == 2
\* most renderings of one report
MaxPrints == 3

\* the reviewTestFile calls made so far, each with what it returned
VARIABLE calls


(***************************************************************************)
(* Types and constants of the reviewer.                                    *)
(***************************************************************************)
\* Object.keys(CATEGORY_WEIGHTS), in insertion order
Categories == <<"theater", "flaky", "over-mocking", "assertions", "isolation", "maintainability", "structure">>

CategorySet == {Categories[i] : i \in 1..Len(Categories)}

CATEGORY_WEIGHTS ==
  [c \in CategorySet |->
     CASE c = "theater" -> 25
       [] c = "flaky" -> 20
       [] c = "over-mocking" -> 15
       [] c = "assertions" -> 15
       [] c = "isolation" -> 10
       [] c = "maintainability" -> 10
       [] c = "structure" -> 5]

\* in tenths: error 1.0, warning 0.6, info 0.3
SEVERITY_MULTIPLIERS == [error |-> 10, warning |-> 6, info |-> 3]

\* severityOrder of filterRules: info < warning < error
severityOrder == <<"info", "warning", "error">>

indexOf(seq, x) == IF \E i \in 1..Len(seq) : seq[i] = x
                   THEN CHOOSE i \in 1..Len(seq) : seq[i] = x /\ \A j \in 1..(i - 1) : seq[j] # x
                   ELSE 0

includes(seq, x) == \E i \in 1..Len(seq) : seq[i] = x

(***************************************************************************)
(* Sequence helpers.                                                       *)
(***************************************************************************)
RECURSIVE Flat(_)
Flat(ss) == IF ss = <<>> THEN <<>> ELSE Head(ss) \o Flat(Tail(ss))

RECURSIVE SumSeq(_)
SumSeq(s) == IF s = <<>> THEN 0 ELSE Head(s) + SumSeq(Tail(s))

Max(a, b) == IF a >= b THEN a ELSE b

(***************************************************************************)
(* The lexicon: the source lines a content is made of.                     *)
(***************************************************************************)
EmptyTest == "it('should work', () => {})"
AlwaysTrue == "expect(true).toBe(true); expect(1).toBe(1);"
Timeout == "setTimeout(() => {}, 100);"
PollFetch == "setInterval(() => fetch('/api/users'), 50);"
WeakTest == "it('checks the value', () => { expect(value).toBeTruthy(); });"
Mocks3 == "vi.mock('./a'); vi.mock('./b'); vi.mock('./c');"
WeakPair == "it('checks a', () => { expect(a).toBeTruthy(); }); it('checks b', () => { expect(b).toBeTruthy(); });"

Lexicon == {EmptyTest, AlwaysTrue, Timeout, PollFetch, WeakTest, Mocks3, WeakPair}

\* lines of the files of a project run only
MockHeavy == "const api = vi.fn().mockReturnValue(1); const db = vi.fn().mockReturnValue(2); const log = vi.fn().mockReturnValue(3); const bus = vi.fn().mockReturnValue(4); vi.spyOn(api, 'get'); vi.spyOn(db, 'put');"
SideEffects == "process.env.MODE = 'ci'; writeFileSync('out.txt', String(Math.random())); expect(undefined).toBe(1); expect(total).toBe(1000);"

\* three assertions in the style of node:assert
AssertStyle == "assert.ok(a); assert.ok(b); assert.ok(c);"

\* a file in which eleven rules fire
Messy == <<EmptyTest, MockHeavy, SideEffects>>

\* a file whose theater and flaky deductions exceed the categories' budgets
Neglected == <<EmptyTest, EmptyTest, EmptyTest, PollFetch, PollFetch>>

\* the file names a review is given
UnitName == "unit.test.ts"
E2eName == "api.e2e.test.ts"
Filenames == {UnitName, E2eName}

IntegrationName == "db.integration.test.ts"
E2eFolderName == "e2e/login.test.ts"

\* FilenameFacts[name]: the substrings the detectors look for in a file name
FilenameFacts ==
  (UnitName :> [dotE2e |-> FALSE, dotIntegration |-> FALSE])
  @@ (E2eName :> [dotE2e |-> TRUE, dotIntegration |-> FALSE])
  @@ (IntegrationName :> [dotE2e |-> FALSE, dotIntegration |-> TRUE])
  @@ (E2eFolderName :> [dotE2e |-> FALSE, dotIntegration |-> FALSE])
  @@ ("a.test.ts" :> [dotE2e |-> FALSE, dotIntegration |-> FALSE])
  @@ ("b.test.ts" :> [dotE2e |-> FALSE, dotIntegration |-> FALSE])
  @@ ("c.e2e.test.ts" :> [dotE2e |-> TRUE, dotIntegration |-> FALSE])
  @@ ("d.test.ts" :> [dotE2e |-> FALSE, dotIntegration |-> FALSE])

\* filename.includes('.e2e.') || filename.includes('.integration.')
IsIntegrationName(filename) ==
  FilenameFacts[filename].dotE2e \/ FilenameFacts[filename].dotIntegration

(***************************************************************************)
(* LineFacts[line][pattern]: the number of matches of a regular expression *)
(* (or, for a test-block pattern with a condition on the body, the number  *)
(* of matching blocks that satisfy it) in one line; patterns not listed    *)
(* for a line do not match it.  No pattern of the catalog matches across   *)
(* two lines of the lexicon.                                               *)
(***************************************************************************)
LineFacts ==
  (EmptyTest :> [testCall |-> 1, poorTestName |-> 1, testBlockNoAssertion |-> 1,
                 emptyTestBlock |-> 1, testWord |-> 1, bracePeak |-> 1])
  @@ (AlwaysTrue :> [expectCall |-> 2, expectTrueToBeTrue |-> 1, expectOneToBeOne |-> 1])
  @@ (Timeout :> [setTimeoutDelay |-> 1, bracePeak |-> 1])
  @@ (PollFetch :> [setIntervalDelay |-> 1, unawaitedFetch |-> 1, networkCall |-> 1])
  @@ (WeakTest :> [testCall |-> 1, expectCall |-> 1, toBeTruthy |-> 1,
                   testWord |-> 1, bracePeak |-> 1])
  @@ (Mocks3 :> [viMock |-> 3, mockWord |-> 1])
  @@ (WeakPair :> [testCall |-> 2, expectCall |-> 2, toBeTruthy |-> 2,
                   testWord |-> 1, bracePeak |-> 1])
  @@ (MockHeavy :> [mockFn |-> 4, spyOn |-> 2, mockReturnValue |-> 4, mockWord |-> 1,
                    constOrLineComment |-> 1])
  @@ (AssertStyle :> [assertCall |-> 3])
  @@ (SideEffects :> [processEnvWrite |-> 1, fsWrite |-> 1, mathRandom |-> 1,
                      expectCall |-> 2, expectUndefined |-> 1, magicNumber |-> 1,
                      testWord |-> 1])

Matches(pattern, line) ==
  IF pattern \in DOMAIN LineFacts[line] THEN LineFacts[line][pattern] ELSE 0

\* content.match(pattern).length over the whole content
CountAll(content, pattern) ==
  SumSeq([i \in 1..Len(content) |-> Matches(pattern, content[i])])

\* pattern.test(content), content.includes(word)
Test(content, pattern) == CountAll(content, pattern) > 0

\* content.split('\n').length
LineCount(content) == IF content = <<>> THEN 1 ELSE Len(content)

(***************************************************************************)
(* matchAllWithLineNumbers: the matches of one pattern in text order, each *)
(* with the line it starts on (findLineNumber).                            *)
(***************************************************************************)
matchAllWithLineNumbers(content, pattern) ==
  Flat([i \in 1..Len(content) |->
          [k \in 1..Matches(pattern, content[i]) |-> [line |-> i]]])

\* one violation of ruleId for each match
violationsOf(ruleId, matches) ==
  [k \in 1..Len(matches) |-> [ruleId |-> ruleId, line |-> matches[k].line]]

\* for (const pattern of patterns) for (const m of matchAll...) violations.push
scanPatterns(ruleId, content, patterns) ==
  Flat([p \in 1..Len(patterns) |->
          violationsOf(ruleId, matchAllWithLineNumbers(content, patterns[p]))])

(***************************************************************************)
(* The rule catalog.  A rule's detect is "catalog" (the detector the       *)
(* catalog registers under its id) or, for a rule a caller passes in       *)
(* options.rules, "throws" (a detector that raises).                       *)
(***************************************************************************)
Rule(id, category, severity, weight) ==
  [id |-> id, category |-> category, severity |-> severity, weight |-> weight,
   detect |-> "catalog"]

flakyTestRules ==
  <<
    Rule("flaky/timing-dependency", "flaky", "error", 8),
    Rule("flaky/random-data", "flaky", "warning", 6),
    Rule("flaky/async-without-await", "flaky", "error", 9),
    Rule("flaky/shared-state", "flaky", "error", 8),
    Rule("flaky/network-dependency", "flaky", "error", 9)
  >>

theaterRules ==
  <<
    Rule("theater/no-assertions", "theater", "error", 10),
    Rule("theater/always-true", "theater", "error", 9),
    Rule("theater/empty-test", "theater", "error", 10),
    Rule("theater/console-only", "theater", "warning", 7),
    Rule("theater/expect-nothing", "theater", "warning", 6)
  >>

overMockingRules ==
  <<
    Rule("mock/excessive-mocking", "over-mocking", "warning", 7),
    Rule("mock/mocking-what-you-test", "over-mocking", "error", 9),
    Rule("mock/mock-return-ignores-input", "over-mocking", "info", 3)
  >>

assertionRules ==
  <<
    Rule("assertion/weak-assertion", "assertions", "warning", 5),
    Rule("assertion/no-error-assertion", "assertions", "info", 4),
    Rule("assertion/single-assertion-syndrome", "assertions", "info", 3)
  >>

isolationRules ==
  <<
    Rule("isolation/test-order-dependency", "isolation", "warning", 7),
    Rule("isolation/global-state", "isolation", "error", 8),
    Rule("isolation/filesystem-side-effects", "isolation", "warning", 6)
  >>

maintainabilityRules ==
  <<
    Rule("maintain/poor-test-name", "maintainability", "info", 3),
    Rule("maintain/deeply-nested", "maintainability", "warning", 4),
    Rule("maintain/large-test-file", "maintainability", "info", 2),
    Rule("maintain/magic-numbers", "maintainability", "info", 2),
    Rule("maintain/commented-test", "maintainability", "warning", 4)
  >>

structureRules ==
  <<
    Rule("structure/missing-describe", "structure", "info", 2),
    Rule("structure/arrange-act-assert", "structure", "info", 2),
    Rule("structure/multiple-acts", "structure", "warning", 5)
  >>

allRules ==
  flakyTestRules \o theaterRules \o overMockingRules \o assertionRules
    \o isolationRules \o maintainabilityRules \o structureRules

RuleIds == {allRules[i].id : i \in 1..Len(allRules)}

\* allRules.find(r => r.id === id)
findRule(id) == allRules[CHOOSE i \in 1..Len(allRules) : allRules[i].id = id]

(***************************************************************************)
(* The detectors, in catalog order.  Each returns its violations in the    *)
(* order the code pushes them.                                             *)
(***************************************************************************)
timingPatterns ==
  <<"setTimeoutDelay", "setIntervalDelay", "promiseSetTimeout", "awaitPromiseSetTimeout">>

detectTimingDependency(content) ==
  scanPatterns("flaky/timing-dependency", content, timingPatterns)

randomPatterns ==
  <<"mathRandom", "cryptoRandomUUID", "uuidCall", "fakerCall", "dateNow", "newDate">>

detectRandomData(content) ==
  LET hasSeed == Test(content, "seedCall")
  IN  IF hasSeed THEN <<>>
      ELSE scanPatterns("flaky/random-data", content, randomPatterns)

unawaitedPatterns == <<"unawaitedFetch", "unawaitedAxios", "thenBeforeExpect">>

detectAsyncWithoutAwait(content) ==
  scanPatterns("flaky/async-without-await", content, unawaitedPatterns)

\* a let/var declaration with an initialiser, followed somewhere by one of the
\* words beforeEach, beforeAll, it, test, describe; kept unless its line
\* contains 'const' or '//'
detectSharedState(content) ==
  LET globalMutations ==
        Flat([i \in 1..Len(content) |->
                IF \E j \in (i + 1)..Len(content) : Matches("testWord", content[j]) > 0
                THEN [k \in 1..Matches("mutableDecl", content[i]) |-> [line |-> i]]
                ELSE [k \in 1..Matches("mutableDeclBeforeTestWord", content[i]) |-> [line |-> i]]])
      kept == SelectSeq(globalMutations,
                        LAMBDA m : Matches("constOrLineComment", content[m.line]) = 0)
  IN  violationsOf("flaky/shared-state", kept)

\* mutant of detectNetworkDependency: only '.e2e.' exempts a file
detectNetworkDependencyE2eOnly(content, filename) ==
  IF FilenameFacts[filename].dotE2e THEN <<>>
  ELSE LET hasMocking == Test(content, "mockWord")
           networkCalls == matchAllWithLineNumbers(content, "networkCall")
       IN  IF ~hasMocking /\ Len(networkCalls) > 0
           THEN violationsOf("flaky/network-dependency", networkCalls)
           ELSE <<>>

detectNetworkDependency(content, filename) ==
  IF IsIntegrationName(filename) THEN <<>>
  ELSE LET hasMocking == Test(content, "mockWord")
           networkCalls == matchAllWithLineNumbers(content, "networkCall")
       IN  IF ~hasMocking /\ Len(networkCalls) > 0
           THEN violationsOf("flaky/network-dependency", networkCalls)
           ELSE <<>>

\* test blocks whose body holds no assertion
\* mutant of detectNoAssertions: a block pattern that wants a non-empty body
detectNoAssertionsNonEmptyBody(content) ==
  SelectSeq(violationsOf("theater/no-assertions",
                         matchAllWithLineNumbers(content, "testBlockNoAssertion")),
            LAMBDA v : Matches("emptyTestBlock", content[v.line]) = 0)

detectNoAssertions(content) ==
  violationsOf("theater/no-assertions",
               matchAllWithLineNumbers(content, "testBlockNoAssertion"))

alwaysTruePatterns ==
  <<"expectTrueToBeTrue", "expectOneToBeOne", "expectLiteralToBeLiteral",
    "expectSumToBe", "assertOkTrue", "expectLiteralToContain">>

detectAlwaysTrue(content) ==
  scanPatterns("theater/always-true", content, alwaysTruePatterns)

detectEmptyTest(content) ==
  violationsOf("theater/empty-test", matchAllWithLineNumbers(content, "emptyTestBlock"))

\* test blocks whose body calls console.* and holds no assertion
detectConsoleOnly(content) ==
  violationsOf("theater/console-only",
               matchAllWithLineNumbers(content, "testBlockConsoleOnly"))

suspiciousPatterns == <<"expectUndefined", "expectNull", "expectNothing">>

detectExpectNothing(content) ==
  scanPatterns("theater/expect-nothing", content, suspiciousPatterns)

detectExcessiveMocking(content) ==
  LET totalMocks == CountAll(content, "jestMock") + CountAll(content, "viMock")
                      + CountAll(content, "spyOn") + CountAll(content, "mockFn")
                      + CountAll(content, "mockImplementation")
      assertionCount == CountAll(content, "expectCall")
  IN  IF totalMocks > 5 /\ totalMocks > assertionCount * 2
      THEN <<[ruleId |-> "mock/excessive-mocking", line |-> 1]>>
      ELSE <<>>

\* a jest.mock / vi.mock of a path that one of the relative imports names
detectMockingWhatYouTest(content) ==
  IF ~Test(content, "relativeImport") THEN <<>>
  ELSE violationsOf("mock/mocking-what-you-test",
                    matchAllWithLineNumbers(content, "mockOfImportedPath"))

detectMockReturnIgnoresInput(content) ==
  LET fixedReturnPatterns == matchAllWithLineNumbers(content, "mockReturnValue")
  IN  IF Len(fixedReturnPatterns) > 3
      THEN <<[ruleId |-> "mock/mock-return-ignores-input",
              line |-> fixedReturnPatterns[1].line]>>
      ELSE <<>>

weakPatterns == <<"toBeTruthy", "toBeFalsy", "toBeDefined", "typeofToBe">>

detectWeakAssertion(content) ==
  scanPatterns("assertion/weak-assertion", content, weakPatterns)

detectNoErrorAssertion(content) ==
  LET hasAsyncTests == Test(content, "asyncTest")
      hasErrorAssertions == Test(content, "errorAssertion")
  IN  IF hasAsyncTests /\ ~hasErrorAssertions
      THEN <<[ruleId |-> "assertion/no-error-assertion", line |-> 1]>>
      ELSE <<>>

detectSingleAssertionSyndrome(content) ==
  LET testCount == CountAll(content, "testCall")
      assertionCount == CountAll(content, "expectCall")
  IN  IF testCount >= 3 /\ assertionCount < testCount
      THEN <<[ruleId |-> "assertion/single-assertion-syndrome", line |-> 1]>>
      ELSE <<>>

detectTestOrderDependency(content) ==
  LET hasSharedState ==
        \E i, j, k \in 1..Len(content) :
          /\ i < j /\ j <= k
          /\ Matches("bareMutableDecl", content[i]) > 0
          /\ Matches("beforeEachCall", content[j]) > 0
          /\ Matches("testCall", content[k]) > 0
      modifiesInTest == Test(content, "testModifiesState")
      hasBeforeEach == Test(content, "beforeEachCall")
      hasProperReset == Test(content, "beforeEachReset")
  IN  IF hasSharedState /\ modifiesInTest /\ (~hasBeforeEach \/ ~hasProperReset)
      THEN <<[ruleId |-> "isolation/test-order-dependency", line |-> 1]>>
      ELSE <<>>

globalModifications == <<"processEnvWrite", "globalWrite", "windowWrite", "documentWrite">>

detectGlobalState(content) ==
  scanPatterns("isolation/global-state", content, globalModifications)

detectFilesystemSideEffects(content) ==
  LET fsOperations == matchAllWithLineNumbers(content, "fsWrite")
      hasCleanup == Test(content, "fsCleanup")
  IN  IF Len(fsOperations) > 0 /\ ~hasCleanup
      THEN violationsOf("isolation/filesystem-side-effects", fsOperations)
      ELSE <<>>

\* poorTestName counts, per test name, one violation for the first bad pattern
\* it matches and one more when it is shorter than 5 and lacks 'should'
detectPoorTestName(content) ==
  violationsOf("maintain/poor-test-name", matchAllWithLineNumbers(content, "poorTestName"))

\* the deepest nesting of braces: a line's braceNet is what it adds to the
\* depth, its bracePeak the deepest it reaches above the depth it starts at
RECURSIVE maxNesting(_, _)
maxNesting(content, currentNesting) ==
  IF content = <<>> THEN 0
  ELSE Max(currentNesting + Matches("bracePeak", Head(content)),
           maxNesting(Tail(content), currentNesting + Matches("braceNet", Head(content))))

detectDeeplyNested(content) ==
  IF CountAll(content, "describeCall") > 4 /\ maxNesting(content, 0) > 8
  THEN <<[ruleId |-> "maintain/deeply-nested", line |-> 1]>>
  ELSE <<>>

detectLargeTestFile(content) ==
  IF LineCount(content) > 500
  THEN <<[ruleId |-> "maintain/large-test-file", line |-> 1]>>
  ELSE <<>>

detectMagicNumbers(content) ==
  violationsOf("maintain/magic-numbers", matchAllWithLineNumbers(content, "magicNumber"))

detectCommentedTest(content) ==
  scanPatterns("maintain/commented-test", content,
               <<"lineCommentedTest", "blockCommentedTest">>)

\* the detector with its test-call pattern hoisted into one shared global
\* regular expression: test() resumes at the lastIndex the call before left,
\* so that every second review finds no test call
detectMissingDescribeSharedRegex(content) ==
  LET hasDescribe == Test(content, "describeCall")
      hasTests == Test(content, "testCall") /\ Len(calls) % 2 = 0
  IN  IF hasTests /\ ~hasDescribe
      THEN <<[ruleId |-> "structure/missing-describe", line |-> 1]>>
      ELSE <<>>

detectMissingDescribe(content) ==
  LET hasDescribe == Test(content, "describeCall")
      hasTests == Test(content, "testCall")
  IN  IF hasTests /\ ~hasDescribe
      THEN <<[ruleId |-> "structure/missing-describe", line |-> 1]>>
      ELSE <<>>

\* test blocks of 5 lines or more and over 200 characters with no AAA marker
detectArrangeActAssert(content) ==
  violationsOf("structure/arrange-act-assert",
               matchAllWithLineNumbers(content, "testBlockNoAAA"))

\* test blocks with two or more expect groups followed by a call
detectMultipleActs(content) ==
  violationsOf("structure/multiple-acts",
               matchAllWithLineNumbers(content, "testBlockMultipleActs"))

\* rule.detect(content, filename) of a catalog rule
detect(ruleId, content, filename) ==
  CASE ruleId = "flaky/timing-dependency" -> detectTimingDependency(content)
    [] ruleId = "flaky/random-data" -> detectRandomData(content)
    [] ruleId = "flaky/async-without-await" -> detectAsyncWithoutAwait(content)
    [] ruleId = "flaky/shared-state" -> detectSharedState(content)
    [] ruleId = "flaky/network-dependency" -> detectNetworkDependency(content, filename)
    [] ruleId = "theater/no-assertions" -> detectNoAssertions(content)
    [] ruleId = "theater/always-true" -> detectAlwaysTrue(content)
    [] ruleId = "theater/empty-test" -> detectEmptyTest(content)
    [] ruleId = "theater/console-only" -> detectConsoleOnly(content)
    [] ruleId = "theater/expect-nothing" -> detectExpectNothing(content)
    [] ruleId = "mock/excessive-mocking" -> detectExcessiveMocking(content)
    [] ruleId = "mock/mocking-what-you-test" -> detectMockingWhatYouTest(content)
    [] ruleId = "mock/mock-return-ignores-input" -> detectMockReturnIgnoresInput(content)
    [] ruleId = "assertion/weak-assertion" -> detectWeakAssertion(content)
    [] ruleId = "assertion/no-error-assertion" -> detectNoErrorAssertion(content)
    [] ruleId = "assertion/single-assertion-syndrome" -> detectSingleAssertionSyndrome(content)
    [] ruleId = "isolation/test-order-dependency" -> detectTestOrderDependency(content)
    [] ruleId = "isolation/global-state" -> detectGlobalState(content)
    [] ruleId = "isolation/filesystem-side-effects" -> detectFilesystemSideEffects(content)
    [] ruleId = "maintain/poor-test-name" -> detectPoorTestName(content)
    [] ruleId = "maintain/deeply-nested" -> detectDeeplyNested(content)
    [] ruleId = "maintain/large-test-file" -> detectLargeTestFile(content)
    [] ruleId = "maintain/magic-numbers" -> detectMagicNumbers(content)
    [] ruleId = "maintain/commented-test" -> detectCommentedTest(content)
    [] ruleId = "structure/missing-describe" -> detectMissingDescribe(content)
    [] ruleId = "structure/arrange-act-assert" -> detectArrangeActAssert(content)
    [] ruleId = "structure/multiple-acts" -> detectMultipleActs(content)

(***************************************************************************)
(* The reviewer (quality-reviewer.ts).                                     *)
(***************************************************************************)
Has(options, field) == field \in DOMAIN options

\* mutants of filterRules.  An includedCategories that is present but empty
\* selects nothing:
filterRulesEmptyIncluded(options) ==
  LET rules0 == IF Has(options, "rules") THEN options.rules ELSE allRules
      rules1 == IF Has(options, "includedCategories")
                THEN SelectSeq(rules0, LAMBDA r : includes(options.includedCategories, r.category))
                ELSE rules0
      rules2 == IF Has(options, "excludedCategories") /\ Len(options.excludedCategories) > 0
                THEN SelectSeq(rules1, LAMBDA r : ~includes(options.excludedCategories, r.category))
                ELSE rules1
  IN  IF Has(options, "minSeverity")
      THEN LET minIndex == indexOf(severityOrder, options.minSeverity)
           IN  SelectSeq(rules2, LAMBDA r : indexOf(severityOrder, r.severity) >= minIndex)
      ELSE rules2

\* excludedCategories is looked at only when includedCategories is not given:
filterRulesElseExcluded(options) ==
  LET rules0 == IF Has(options, "rules") THEN options.rules ELSE allRules
      rules2 == IF Has(options, "includedCategories") /\ Len(options.includedCategories) > 0
                THEN SelectSeq(rules0, LAMBDA r : includes(options.includedCategories, r.category))
                ELSE IF Has(options, "excludedCategories") /\ Len(options.excludedCategories) > 0
                THEN SelectSeq(rules0, LAMBDA r : ~includes(options.excludedCategories, r.category))
                ELSE rules0
  IN  IF Has(options, "minSeverity")
      THEN LET minIndex == indexOf(severityOrder, options.minSeverity)
           IN  SelectSeq(rules2, LAMBDA r : indexOf(severityOrder, r.severity) >= minIndex)
      ELSE rules2

\* the severity comparison is turned round:
filterRulesAtMost(options) ==
  LET rules0 == IF Has(options, "rules") THEN options.rules ELSE allRules
      rules1 == IF Has(options, "includedCategories") /\ Len(options.includedCategories) > 0
                THEN SelectSeq(rules0, LAMBDA r : includes(options.includedCategories, r.category))
                ELSE rules0
      rules2 == IF Has(options, "excludedCategories") /\ Len(options.excludedCategories) > 0
                THEN SelectSeq(rules1, LAMBDA r : ~includes(options.excludedCategories, r.category))
                ELSE rules1
  IN  IF Has(options, "minSeverity")
      THEN LET minIndex == indexOf(severityOrder, options.minSeverity)
           IN  SelectSeq(rules2, LAMBDA r : indexOf(severityOrder, r.severity) <= minIndex)
      ELSE rules2

filterRules(options) ==
  LET rules0 == IF Has(options, "rules") THEN options.rules ELSE allRules
      rules1 == IF Has(options, "includedCategories") /\ Len(options.includedCategories) > 0
                THEN SelectSeq(rules0, LAMBDA r : includes(options.includedCategories, r.category))
                ELSE rules0
      rules2 == IF Has(options, "excludedCategories") /\ Len(options.excludedCategories) > 0
                THEN SelectSeq(rules1, LAMBDA r : ~includes(options.excludedCategories, r.category))
                ELSE rules1
  IN  IF Has(options, "minSeverity")
      THEN LET minIndex == indexOf(severityOrder, options.minSeverity)
           IN  SelectSeq(rules2, LAMBDA r : indexOf(severityOrder, r.severity) >= minIndex)
      ELSE rules2

countTests(content) == CountAll(content, "testCall")

countAssertions(content) ==
  CountAll(content, "expectCall") + CountAll(content, "assertCall")
    + CountAll(content, "shouldCall")

\* one pass of the rule loop of reviewTestFile: what the rule adds to violations
\* (nothing when its detect throws: the catch block only logs)
runRule(rule, content, filename) ==
  IF rule.detect = "throws" THEN <<>> ELSE detect(rule.id, content, filename)

\* ruleMap.get(id) of calculateScore
ruleOf(rules, id) == rules[CHOOSE i \in 1..Len(rules) : rules[i].id = id]

hasRule(rules, id) == \E i \in 1..Len(rules) : rules[i].id = id

\* mutant of deductionsOf: the severity multiplier is left out
deductionsOfWeightOnly(violations, rules, category) ==
  LET counted == SelectSeq(violations,
                   LAMBDA v : hasRule(rules, v.ruleId)
                              /\ ruleOf(rules, v.ruleId).category = category)
  IN  [k \in 1..Len(counted) |-> ruleOf(rules, counted[k].ruleId).weight * 10]

\* the deductions, in tenths, that the violations add to one category, in order
deductionsOf(violations, rules, category) ==
  LET counted == SelectSeq(violations,
                   LAMBDA v : hasRule(rules, v.ruleId)
                              /\ ruleOf(rules, v.ruleId).category = category)
  IN  [k \in 1..Len(counted) |->
         LET rule == ruleOf(rules, counted[k].ruleId)
         IN  rule.weight * SEVERITY_MULTIPLIERS[rule.severity]]

(***************************************************************************)
(* Math.round(100 - (actualDeduction / maxDeduction) * 100).  With the     *)
(* deductions in tenths the exact value is floor((200 M - 20 A + M) / 2M). *)
(* The code computes in binary64: where the exact value ends in .5 the     *)
(* rounding errors of weight * 0.3, of the division and of the product     *)
(* decide the side.  Float64BelowHalf lists the operands <<maxDeduction,   *)
(* deductions>>, among those the lexicon produces in up to MaxLen + 1      *)
(* lines, for which binary64 yields a value just below the tie (there      *)
(* 3.0 + 3.0 + 0.8999999999999999 = 6.9, 6.9 / 12 * 100 =                  *)
(* 57.50000000000001, and 100 minus that is 42.49999999999999).            *)
(***************************************************************************)
Float64BelowHalf == {<<12, <<30, 30, 9>>>>}

roundNormalized(maxDeduction, deductions) ==
  LET exact == (200 * maxDeduction - 20 * SumSeq(deductions) + maxDeduction)
                 \div (2 * maxDeduction)
  IN  IF <<maxDeduction, deductions>> \in Float64BelowHalf THEN exact - 1 ELSE exact

\* mutants of categoryScore: no Math.max(0, ...); 0 for a category without rules
categoryScoreUnclamped(violations, rules, category) ==
  LET categoryRules == SelectSeq(rules, LAMBDA r : r.category = category)
      maxDeduction == SumSeq([i \in 1..Len(categoryRules) |-> categoryRules[i].weight])
      deductions == deductionsOf(violations, rules, category)
  IN  [category |-> category,
       score |-> IF maxDeduction > 0 THEN roundNormalized(maxDeduction, deductions) ELSE 100,
       weight |-> CATEGORY_WEIGHTS[category],
       violations |-> Len(deductions),
       maxDeduction |-> maxDeduction,
       actualDeduction |-> SumSeq(deductions)]

categoryScoreZeroWithoutRules(violations, rules, category) ==
  LET categoryRules == SelectSeq(rules, LAMBDA r : r.category = category)
      maxDeduction == SumSeq([i \in 1..Len(categoryRules) |-> categoryRules[i].weight])
      deductions == deductionsOf(violations, rules, category)
  IN  [category |-> category,
       score |-> IF maxDeduction > 0
                 THEN Max(0, roundNormalized(maxDeduction, deductions))
                 ELSE 0,
       weight |-> CATEGORY_WEIGHTS[category],
       violations |-> Len(deductions),
       maxDeduction |-> maxDeduction,
       actualDeduction |-> SumSeq(deductions)]

categoryScore(violations, rules, category) ==
  LET categoryRules == SelectSeq(rules, LAMBDA r : r.category = category)
      maxDeduction == SumSeq([i \in 1..Len(categoryRules) |-> categoryRules[i].weight])
      deductions == deductionsOf(violations, rules, category)
  IN  [category |-> category,
       score |-> IF maxDeduction > 0
                 THEN Max(0, roundNormalized(maxDeduction, deductions))
                 ELSE 100,
       weight |-> CATEGORY_WEIGHTS[category],
       violations |-> Len(deductions),
       maxDeduction |-> maxDeduction,
       actualDeduction |-> SumSeq(deductions)]

\* a division that truncates instead of rounding
roundDivFloor(a, b) == a \div b

\* Math.round(a / b) for integers a >= 0, b > 0
roundDiv(a, b) == (2 * a + b) \div (2 * b)

\* mutant of calculateScore: only the categories that have a selected rule
calculateScoreOfSelected(violations, rules) ==
  LET present == SelectSeq(Categories,
                   LAMBDA c : \E i \in 1..Len(rules) : rules[i].category = c)
      scoreBreakdown == [i \in 1..Len(present) |-> categoryScore(violations, rules, present[i])]
      weightedSum == SumSeq([i \in 1..Len(scoreBreakdown) |->
                               scoreBreakdown[i].score * scoreBreakdown[i].weight])
      totalWeight == SumSeq([i \in 1..Len(scoreBreakdown) |-> scoreBreakdown[i].weight])
  IN  [score |-> IF totalWeight > 0 THEN roundDiv(weightedSum, totalWeight) ELSE 100,
       scoreBreakdown |-> scoreBreakdown]

calculateScore(violations, rules) ==
  LET scoreBreakdown == Flat([i \in 1..Len(Categories) |->
                                <<categoryScore(violations, rules, Categories[i])>>])
      weightedSum == SumSeq([i \in 1..Len(scoreBreakdown) |->
                               scoreBreakdown[i].score * scoreBreakdown[i].weight])
      totalWeight == SumSeq([i \in 1..Len(scoreBreakdown) |-> scoreBreakdown[i].weight])
  IN  [score |-> IF totalWeight > 0 THEN roundDiv(weightedSum, totalWeight) ELSE 100,
       scoreBreakdown |-> scoreBreakdown]

\* a tally that counts a violation under every severity up to its own
countSeverityAtLeast(violations, severity) ==
  Len(SelectSeq(violations,
        LAMBDA v : indexOf(severityOrder, findRule(v.ruleId).severity)
                     >= indexOf(severityOrder, severity)))

countSeverity(violations, severity) ==
  Len(SelectSeq(violations, LAMBDA v : findRule(v.ruleId).severity = severity))

generateFileSummary(violations, testCount, assertionCount, score) ==
  IF Len(violations) = 0
  THEN [clean |-> TRUE, testCount |-> testCount, assertionCount |-> assertionCount]
  ELSE [clean |-> FALSE, score |-> score,
        errors |-> countSeverity(violations, "error"),
        warnings |-> countSeverity(violations, "warning"),
        testCount |-> testCount, assertionCount |-> assertionCount]

\* mutant of reviewTestFile: the try/catch is around the loop, so that the
\* first rule to throw ends it
reviewTestFileCatchOutside(content, filename, options) ==
  LET rules == filterRules(options)
      ran == SelectSeq([i \in 1..Len(rules) |-> i],
               LAMBDA i : \A j \in 1..i : rules[j].detect # "throws")
      violations == Flat([k \in 1..Len(ran) |-> runRule(rules[ran[k]], content, filename)])
      testCount == countTests(content)
      assertionCount == countAssertions(content)
      scored == calculateScore(violations, rules)
  IN  [path |-> filename,
       relativePath |-> filename,
       violations |-> violations,
       score |-> scored.score,
       scoreBreakdown |-> scored.scoreBreakdown,
       testCount |-> testCount,
       assertionCount |-> assertionCount,
       summary |-> generateFileSummary(violations, testCount, assertionCount, scored.score)]

\* mutant of reviewTestFile: the counts are taken only when a rule is selected
reviewTestFileCountsWhenChecked(content, filename, options) ==
  LET rules == filterRules(options)
      violations == Flat([i \in 1..Len(rules) |-> runRule(rules[i], content, filename)])
      testCount == IF Len(rules) = 0 THEN 0 ELSE countTests(content)
      assertionCount == IF Len(rules) = 0 THEN 0 ELSE countAssertions(content)
      scored == calculateScore(violations, rules)
  IN  [path |-> filename,
       relativePath |-> filename,
       violations |-> violations,
       score |-> scored.score,
       scoreBreakdown |-> scored.scoreBreakdown,
       testCount |-> testCount,
       assertionCount |-> assertionCount,
       summary |-> generateFileSummary(violations, testCount, assertionCount, scored.score)]

reviewTestFile(content, filename, options) ==
  LET rules == filterRules(options)
      violations == Flat([i \in 1..Len(rules) |-> runRule(rules[i], content, filename)])
      testCount == countTests(content)
      assertionCount == countAssertions(content)
      scored == calculateScore(violations, rules)
  IN  [path |-> filename,
       relativePath |-> filename,
       violations |-> violations,
       score |-> scored.score,
       scoreBreakdown |-> scored.scoreBreakdown,
       testCount |-> testCount,
       assertionCount |-> assertionCount,
       summary |-> generateFileSummary(violations, testCount, assertionCount, scored.score)]

(***************************************************************************)
(* Aggregation and recommendations.                                        *)
(***************************************************************************)
\* a sort that leaves the elements where they are
keepOrder(seq, compare) == seq

\* Array.prototype.sort (stable); compare[i][j] is the comparator's result for
\* the elements at positions i and j
stableSort(seq, compare) ==
  LET n == Len(seq)
      rank(i) == Cardinality({j \in 1..n : \/ compare[j][i] < 0
                                           \/ (compare[i][j] >= 0 /\ j < i)})
      \* the rank of every position, computed once
      ranks == SubSeq([i \in 1..n |-> rank(i)], 1, n)
  IN  [p \in 1..n |-> seq[CHOOSE i \in 1..n : ranks[i] = p - 1]]

\* slice(0, n)
slice(seq, n) == SubSeq(seq, 1, IF Len(seq) < n THEN Len(seq) ELSE n)

\* an order that puts the least severe first
severityRankAscending == <<"info", "warning", "error">>

severityRank == <<"error", "warning", "info">>

generateSummary(files) ==
  LET allViolations == Flat([i \in 1..Len(files) |-> files[i].violations])
      known == SelectSeq(allViolations, LAMBDA v : v.ruleId \in RuleIds)
      violationsByCategory ==
        [c \in CategorySet |->
           Len(SelectSeq(known, LAMBDA v : findRule(v.ruleId).category = c))]
      violationsBySeverity ==
        [sev \in {"error", "warning", "info"} |-> countSeverity(known, sev)]
      \* the keys of violationCounts, in insertion order
      firstSeen == Flat([i \in 1..Len(known) |->
                           IF \E j \in 1..(i - 1) : known[j].ruleId = known[i].ruleId
                           THEN <<>> ELSE <<known[i].ruleId>>])
      entries == Flat([k \in 1..Len(firstSeen) |->
                         <<[rule |-> firstSeen[k],
                            count |-> Len(SelectSeq(known, LAMBDA v : v.ruleId = firstSeen[k])),
                            severity |-> findRule(firstSeen[k]).severity]>>])
      topIssues ==
        slice(stableSort(entries,
                [i \in 1..Len(entries) |-> [j \in 1..Len(entries) |->
                   LET a == entries[i]
                       b == entries[j]
                       severityDiff == indexOf(severityRank, a.severity)
                                         - indexOf(severityRank, b.severity)
                   IN  IF severityDiff # 0 THEN severityDiff ELSE b.count - a.count]]),
              10)
      scoreBreakdown ==
        [i \in 1..Len(Categories) |->
           LET scores == Flat([f \in 1..Len(files) |->
                                 LET forCategory == SelectSeq(files[f].scoreBreakdown,
                                                      LAMBDA cs : cs.category = Categories[i])
                                 IN  [k \in 1..Len(forCategory) |-> forCategory[k].score]])
           IN  [category |-> Categories[i],
                score |-> IF Len(scores) > 0 THEN roundDiv(SumSeq(scores), Len(scores)) ELSE 100,
                weight |-> CATEGORY_WEIGHTS[Categories[i]],
                violations |-> violationsByCategory[Categories[i]],
                maxDeduction |-> 0,
                actualDeduction |-> 0]]
  IN  [totalFiles |-> Len(files),
       totalTests |-> SumSeq([i \in 1..Len(files) |-> files[i].testCount]),
       totalAssertions |-> SumSeq([i \in 1..Len(files) |-> files[i].assertionCount]),
       totalViolations |-> Len(allViolations),
       overallScore |-> IF Len(files) > 0
                        THEN roundDiv(SumSeq([i \in 1..Len(files) |-> files[i].score]), Len(files))
                        ELSE 100,
       scoreBreakdown |-> scoreBreakdown,
       violationsByCategory |-> violationsByCategory,
       violationsBySeverity |-> violationsBySeverity,
       topIssues |-> topIssues]

createEmptySummary ==
  [totalFiles |-> 0,
   totalTests |-> 0,
   totalAssertions |-> 0,
   totalViolations |-> 0,
   overallScore |-> 0,
   scoreBreakdown |-> <<>>,
   violationsByCategory |-> [c \in CategorySet |-> 0],
   violationsBySeverity |-> [sev \in {"error", "warning", "info"} |-> 0],
   topIssues |-> <<>>]

\* a recommendation is named by what it is about
Msg(about) == [about |-> about]

\* recommendations as an if / else-if chain: only the first message that applies
generateRecommendationsExclusive(summary, files) ==
  IF summary.violationsByCategory["theater"] > 0 THEN <<Msg("theater")>>
  ELSE IF summary.violationsByCategory["flaky"] > 3 THEN <<Msg("flaky")>>
  ELSE IF summary.violationsByCategory["over-mocking"] > 2 THEN <<Msg("over-mocking")>>
  ELSE IF summary.violationsByCategory["isolation"] > 0 THEN <<Msg("isolation")>>
  ELSE IF summary.overallScore < 60 THEN <<Msg("low-score")>>
  ELSE IF summary.totalTests > 0 /\ summary.totalAssertions < summary.totalTests
       THEN <<Msg("low-assertion-density")>>
  ELSE IF summary.overallScore >= 80 THEN <<Msg("good-quality")>>
  ELSE IF summary.totalViolations = 0 THEN <<Msg("no-issues")>>
  ELSE <<>>

generateRecommendations(summary, files) ==
  LET lowestCategories ==
        LET withViolations == SelectSeq(summary.scoreBreakdown, LAMBDA c : c.violations > 0)
        IN  slice(stableSort(withViolations,
                    [i \in 1..Len(withViolations) |-> [j \in 1..Len(withViolations) |->
                       withViolations[i].score - withViolations[j].score]]),
                  2)
      focus == SelectSeq(lowestCategories, LAMBDA c : c.score < 70)
  IN  (IF summary.violationsByCategory["theater"] > 0 THEN <<Msg("theater")>> ELSE <<>>)
      \o (IF summary.violationsByCategory["flaky"] > 3 THEN <<Msg("flaky")>> ELSE <<>>)
      \o (IF summary.violationsByCategory["over-mocking"] > 2 THEN <<Msg("over-mocking")>> ELSE <<>>)
      \o (IF summary.violationsByCategory["isolation"] > 0 THEN <<Msg("isolation")>> ELSE <<>>)
      \o (IF summary.overallScore < 60 THEN <<Msg("low-score")>> ELSE <<>>)
      \o (IF summary.totalTests > 0 /\ summary.totalAssertions < summary.totalTests
          THEN <<Msg("low-assertion-density")>> ELSE <<>>)
      \o (IF summary.overallScore >= 80 THEN <<Msg("good-quality")>> ELSE <<>>)
      \o (IF summary.totalViolations = 0 THEN <<Msg("no-issues")>> ELSE <<>>)
      \o [k \in 1..Len(focus) |->
            [about |-> "focus-area", category |-> focus[k].category, score |-> focus[k].score]]

(***************************************************************************)
(* Formatting.  A rendered text is the sequence of its lines, each line    *)
(* the tuple of what it shows; a JSON text is the sequence of the object's *)
(* <<key, value>> members in property order.                               *)
(***************************************************************************)
\* new Date(t).toISOString() for the instants the clock takes
IsoInstants ==
  <<"2026-01-01T00:00:00.000Z", "2026-01-01T00:00:01.000Z", "2026-01-01T00:00:02.000Z",
    "2026-01-01T00:00:03.000Z">>

toISOString(t) == IsoInstants[t + 1]

\* createProgressBar(value, 20): the number of filled cells
createProgressBar(value) == roundDiv(value * 20, 100)

\* the lines of one file in the verbose listing
fileDetails(file) ==
  <<<<"file", file.relativePath, file.summary>>>>
    \o [k \in 1..Len(slice(file.violations, 5)) |->
          <<"violation", file.violations[k].ruleId, findRule(file.violations[k].ruleId).severity,
            file.violations[k].line>>]
    \o (IF Len(file.violations) > 5 THEN <<<<"more", Len(file.violations) - 5>>>> ELSE <<>>)

\* [...files].sort((a, b) => a.score - b.score): a sorted copy
worstFirst(files) ==
  stableSort(files, [i \in 1..Len(files) |-> [j \in 1..Len(files) |->
                       files[i].score - files[j].score]])

formatReviewReport(r, verbose) ==
  LET summary == r.summary
      error == summary.violationsBySeverity["error"]
      warning == summary.violationsBySeverity["warning"]
      info == summary.violationsBySeverity["info"]
      shown == slice(summary.topIssues, 5)
  IN  <<<<"overall", summary.overallScore,
          IF summary.overallScore >= 80 THEN "green"
          ELSE IF summary.overallScore >= 60 THEN "yellow" ELSE "red">>,
        <<"statistics", summary.totalFiles, summary.totalTests, summary.totalAssertions,
          summary.totalViolations>>>>
      \o [i \in 1..Len(summary.scoreBreakdown) |->
            <<"category", summary.scoreBreakdown[i].category,
              createProgressBar(summary.scoreBreakdown[i].score),
              summary.scoreBreakdown[i].score>>]
      \o (IF error + warning + info > 0
          THEN (IF error > 0 THEN <<<<"errors", error>>>> ELSE <<>>)
               \o (IF warning > 0 THEN <<<<"warnings", warning>>>> ELSE <<>>)
               \o (IF info > 0 THEN <<<<"info", info>>>> ELSE <<>>)
          ELSE <<>>)
      \o [k \in 1..Len(shown) |-> <<"issue", shown[k].severity, shown[k].rule, shown[k].count>>]
      \o [k \in 1..Len(r.recommendations) |-> <<"recommendation", r.recommendations[k]>>]
      \o (IF verbose /\ Len(r.files) > 0
          THEN Flat([k \in 1..Len(r.files) |-> fileDetails(worstFirst(r.files)[k])])
          ELSE <<>>)

\* JSON.stringify(report, null, 2)
formatAsJSON(r) ==
  <<<<"rootDir", r.rootDir>>, <<"timestamp", r.timestamp>>, <<"files", r.files>>,
    <<"summary", r.summary>>, <<"recommendations", r.recommendations>>>>

(***************************************************************************)
(* Inputs.                                                                 *)
(***************************************************************************)
RECURSIVE SeqsUpTo(_, _)
SeqsUpTo(S, n) ==
  IF n = 0 THEN {<<>>}
  ELSE LET shorter == SeqsUpTo(S, n - 1)
       IN  shorter \cup {Append(q, x) : q \in shorter, x \in S}

Contents == SeqsUpTo(Lexicon, MaxLen)

\* options.rules of a caller whose copy of one catalog rule raises
withThrowing(id) ==
  [i \in 1..Len(allRules) |->
     IF allRules[i].id = id THEN [allRules[i] EXCEPT !.detect = "throws"] ELSE allRules[i]]

NoOptions == [field \in {} |-> field]

IncludedChoices == {<<>>, <<"flaky">>, <<"theater", "assertions">>}
ExcludedChoices == {<<"theater">>}
SeverityChoices == {"info", "warning", "error"}
ThrowingChoices == {"theater/no-assertions"}

CategoryFilters ==
  {i @@ e :
     i \in {NoOptions} \cup {[includedCategories |-> v] : v \in IncludedChoices},
     e \in {NoOptions} \cup {[excludedCategories |-> v] : v \in ExcludedChoices}}

SeverityFilters ==
  {[minSeverity |-> v] @@ i :
     v \in SeverityChoices,
     i \in {NoOptions, [includedCategories |-> <<"theater", "assertions">>]}}

\* a selection that leaves no rule: the one included category is excluded too
NothingSelected == [includedCategories |-> <<"theater">>, excludedCategories |-> <<"theater">>]

FilterChoices == CategoryFilters \cup SeverityFilters \cup {NothingSelected}

OptionChoices ==
  FilterChoices
    \cup {[rules |-> withThrowing(id)] @@ o :
            id \in ThrowingChoices,
            o \in {NoOptions, [minSeverity |-> "warning"],
                   [includedCategories |-> <<"theater", "assertions">>]}}

\* the options of the project runs
RunOptionChoices ==
  {NoOptions, [minSeverity |-> "error"], [excludedCategories |-> <<"theater">>],
   [rules |-> withThrowing("theater/no-assertions")]}

\* what glob and readFile can yield for one discovered file
FileChoices ==
  {[readable |-> TRUE, content |-> c] :
     c \in {<<>>, <<EmptyTest>>, <<WeakTest>>, <<PollFetch>>, Messy, Neglected}}
    \cup {[readable |-> FALSE, content |-> <<>>]}

\* the rootDir argument of a project run
RootDir == "/project"

ProjectPaths == <<"a.test.ts", "b.test.ts", "c.e2e.test.ts", "d.test.ts">>

Discoveries ==
  {[i \in 1..Len(q) |-> [path |-> ProjectPaths[i], readable |-> q[i].readable,
                         content |-> q[i].content]] :
     q \in SeqsUpTo(FileChoices, MaxFiles)}

(***************************************************************************)
(* State.                                                                  *)
(***************************************************************************)
VARIABLES
  pc,             \* "idle", "returned" (from reviewTestFile), "reviewing" (inside the
                  \* loop of reviewTestFiles), "done" (reviewTestFiles returned)
  options,        \* the options of the call in progress or last made
  content,        \* content and filename of the last reviewTestFile call
  filename,
  review,         \* <<the ReviewedFile it returned>>, or <<>> before any call
  testFiles,      \* what glob found for the project run
  next,           \* index of the next file of testFiles to read
  reviewedFiles,  \* the run's reviewedFiles so far
  report,         \* <<the ReviewReport returned>>, or <<>>
  clock,          \* the time new Date() reads
  printed,        \* what the formatters returned so far, each with the run it renders
  exitCode        \* <<the status the review command exited with>>, or <<>>

vars == <<pc, options, content, filename, review, testFiles, next, reviewedFiles, report,
          calls, clock, printed, exitCode>>

Init ==
  /\ pc = "idle"
  /\ options = NoOptions
  /\ content = <<>>
  /\ filename = UnitName
  /\ review = <<>>
  /\ testFiles = <<>>
  /\ next = 1
  /\ reviewedFiles = <<>>
  /\ report = <<>>
  /\ calls = <<>>
  /\ clock = 0
  /\ printed = <<>>
  /\ exitCode = <<>>

\* The module keeps no state between calls (every call starts from Init's
\* values), so a behaviour follows one call of an entry point.
\* a caller invokes reviewTestFile(c, f, o)
ReviewTestFile(c, f, o) ==
  /\ pc = "idle"
  /\ pc' = "returned"
  /\ options' = o
  /\ content' = c
  /\ filename' = f
  /\ LET reviewed == reviewTestFile(c, f, o)
     IN  /\ review' = <<reviewed>>
         /\ calls' = Append(calls, [content |-> c, filename |-> f, options |-> o,
                                    returned |-> reviewed])
  /\ testFiles' = <<>>
  /\ next' = 1
  /\ reviewedFiles' = <<>>
  /\ report' = <<>>
  /\ UNCHANGED <<clock, printed, exitCode>>

\* the caller invokes reviewTestFile(c, f, o) once more
ReviewTestFileAgain(c, f, o) ==
  /\ pc = "returned"
  /\ Len(calls) < MaxCalls
  /\ options' = o
  /\ content' = c
  /\ filename' = f
  /\ LET reviewed == reviewTestFile(c, f, o)
     IN  /\ review' = <<reviewed>>
         /\ calls' = Append(calls, [content |-> c, filename |-> f, options |-> o,
                                    returned |-> reviewed])
  /\ UNCHANGED <<pc, testFiles, next, reviewedFiles, report>>
  /\ UNCHANGED <<clock, printed, exitCode>>

\* reviewTestFiles without the early return for an empty discovery: the empty
\* list goes through the loop, generateSummary and generateRecommendations
StartEmptyRunThroughSummary(o) ==
  /\ pc = "idle"
  /\ pc' = "done"
  /\ options' = o
  /\ testFiles' = <<>>
  /\ next' = 1
  /\ reviewedFiles' = <<>>
  /\ report' = <<[rootDir |-> RootDir,
                  timestamp |-> toISOString(clock),
                  files |-> <<>>,
                  summary |-> generateSummary(<<>>),
                  recommendations |-> generateRecommendations(generateSummary(<<>>), <<>>)]>>
  /\ content' = <<>>
  /\ filename' = UnitName
  /\ review' = <<>>
  /\ calls' = calls
  /\ UNCHANGED <<clock, printed, exitCode>>

\* reviewTestFiles(rootDir, o) up to its loop: glob finds no file and it returns
StartEmptyRun(o) ==
  /\ pc = "idle"
  /\ pc' = "done"
  /\ options' = o
  /\ testFiles' = <<>>
  /\ next' = 1
  /\ reviewedFiles' = <<>>
  /\ report' = <<[rootDir |-> RootDir,
                  timestamp |-> toISOString(clock),
                  files |-> <<>>,
                  summary |-> createEmptySummary,
                  recommendations |-> <<Msg("no-test-files")>>]>>
  /\ content' = <<>>
  /\ filename' = UnitName
  /\ review' = <<>>
  /\ calls' = calls
  /\ UNCHANGED <<clock, printed, exitCode>>

\* reviewTestFiles(rootDir, o) up to its loop: glob finds files
StartRun(files, o) ==
  /\ pc = "idle"
  /\ Len(files) > 0
  /\ pc' = "reviewing"
  /\ options' = o
  /\ testFiles' = files
  /\ next' = 1
  /\ reviewedFiles' = <<>>
  /\ report' = <<>>
  /\ content' = <<>>
  /\ filename' = UnitName
  /\ review' = <<>>
  /\ calls' = calls
  /\ UNCHANGED <<clock, printed, exitCode>>

\* one pass of the loop: readFile succeeds and the file is reviewed
ReadAndReview ==
  /\ pc = "reviewing"
  /\ next <= Len(testFiles)
  /\ testFiles[next].readable
  /\ LET file == testFiles[next]
         reviewed == reviewTestFile(file.content, file.path, options)
     IN  /\ content' = file.content
         /\ filename' = file.path
         /\ review' = <<reviewed>>
         /\ reviewedFiles' = Append(reviewedFiles, reviewed)
  /\ next' = next + 1
  /\ UNCHANGED <<pc, options, testFiles, report, calls>>
  /\ UNCHANGED <<clock, printed, exitCode>>

\* a loop that reports a file it could not read as a file without content
SkipUnreadableAsEmpty ==
  /\ pc = "reviewing"
  /\ next <= Len(testFiles)
  /\ ~testFiles[next].readable
  /\ reviewedFiles' = Append(reviewedFiles, reviewTestFile(<<>>, testFiles[next].path, options))
  /\ next' = next + 1
  /\ UNCHANGED <<pc, options, content, filename, review, testFiles, report, calls>>
  /\ UNCHANGED <<clock, printed, exitCode>>

\* one pass of the loop: readFile throws and the file is skipped
SkipUnreadable ==
  /\ pc = "reviewing"
  /\ next <= Len(testFiles)
  /\ ~testFiles[next].readable
  /\ next' = next + 1
  /\ UNCHANGED <<pc, options, content, filename, review, testFiles, reviewedFiles, report,
                 calls>>
  /\ UNCHANGED <<clock, printed, exitCode>>

\* after the loop: the summary, the recommendations and the returned report
FinishRun ==
  /\ pc = "reviewing"
  /\ next > Len(testFiles)
  /\ LET summary == generateSummary(reviewedFiles)
     IN  report' = <<[rootDir |-> RootDir,
                      timestamp |-> toISOString(clock),
                      files |-> reviewedFiles,
                      summary |-> summary,
                      recommendations |-> generateRecommendations(summary, reviewedFiles)]>>
  /\ pc' = "done"
  /\ UNCHANGED <<options, content, filename, review, testFiles, next, reviewedFiles, calls>>
  /\ UNCHANGED <<clock, printed, exitCode>>

\* the entry points are called with any of the inputs
CallReviewTestFile ==
  /\ pc = "idle"
  /\ \E c \in Contents, f \in Filenames, o \in OptionChoices : ReviewTestFile(c, f, o)

CallReviewTestFiles ==
  /\ pc = "idle"
  /\ \E o \in RunOptionChoices :
        \/ StartEmptyRun(o)
        \/ \E files \in Discoveries : StartRun(files, o)

Next ==
  \/ CallReviewTestFile
  \/ CallReviewTestFiles
  \/ ReadAndReview
  \/ SkipUnreadable
  \/ FinishRun

Spec == Init /\ [][Next]_vars

(***************************************************************************)
(* A caller that reviews several inputs in a row, some of them again.      *)
(***************************************************************************)
RepeatInputs ==
  {[content |-> <<EmptyTest>>, filename |-> UnitName, options |-> NoOptions],
   [content |-> <<PollFetch, Timeout>>, filename |-> UnitName, options |-> NoOptions],
   [content |-> <<PollFetch, Timeout>>, filename |-> E2eName, options |-> NoOptions],
   [content |-> <<WeakPair, EmptyTest>>, filename |-> UnitName,
    options |-> [minSeverity |-> "warning"]],
   [content |-> <<AlwaysTrue>>, filename |-> UnitName,
    options |-> [includedCategories |-> <<"theater", "assertions">>]],
   [content |-> <<>>, filename |-> UnitName, options |-> NoOptions]}

FirstCall ==
  /\ pc = "idle"
  /\ \E i \in RepeatInputs : ReviewTestFile(i.content, i.filename, i.options)

LaterCall ==
  /\ pc = "returned"
  /\ \E i \in RepeatInputs : ReviewTestFileAgain(i.content, i.filename, i.options)

NextRepeat ==
  \/ FirstCall
  \/ LaterCall

SpecRepeat == Init /\ [][NextRepeat]_vars

(***************************************************************************)
(* Successive project runs over the same directory, each rendered as JSON. *)
(***************************************************************************)
\* time passes between runs
Tick ==
  /\ pc = "idle"
  /\ clock < MaxClock
  /\ clock' = clock + 1
  /\ UNCHANGED <<pc, options, content, filename, review, testFiles, next, reviewedFiles,
                 report, calls, printed, exitCode>>

\* formatAsJSON(report) of the report the run returned
FormatAsJSON ==
  /\ pc = "done"
  /\ printed' = Append(printed, [kind |-> "json", testFiles |-> testFiles,
                                  options |-> options, text |-> formatAsJSON(report[1])])
  /\ UNCHANGED <<pc, options, content, filename, review, testFiles, next, reviewedFiles,
                 report, calls, clock, exitCode>>

\* the caller is done with the report and is ready for another run
RunAgain ==
  /\ pc = "done"
  /\ pc' = "idle"
  /\ options' = NoOptions
  /\ testFiles' = <<>>
  /\ next' = 1
  /\ reviewedFiles' = <<>>
  /\ report' = <<>>
  /\ UNCHANGED <<content, filename, review, calls, clock, printed, exitCode>>

\* what glob finds in the directory of the successive runs
RunDiscoveries ==
  {<<>>,
   <<[path |-> ProjectPaths[1], readable |-> FALSE, content |-> <<>>],
     [path |-> ProjectPaths[2], readable |-> TRUE, content |-> <<EmptyTest>>]>>}

StartSuccessiveRun ==
  /\ pc = "idle"
  /\ \E files \in RunDiscoveries :
       IF Len(files) = 0 THEN StartEmptyRun(NoOptions) ELSE StartRun(files, NoOptions)

PrintJSON ==
  /\ pc = "done"
  /\ Len(printed) < MaxRuns
  /\ FormatAsJSON

NextRuns ==
  \/ StartSuccessiveRun
  \/ ReadAndReview
  \/ SkipUnreadable
  \/ FinishRun
  \/ PrintJSON
  \/ RunAgain
  \/ Tick

SpecRuns == Init /\ [][NextRuns]_vars

(***************************************************************************)
(* The review command of the CLI (cli.ts): it builds the review options    *)
(* from its flags, awaits reviewTestFiles, prints the report in one of the *)
(* formats and decides the exit status.                                    *)
(***************************************************************************)
\* the review options the command builds from its flags
reviewOptionsOf(flags) ==
  (IF Has(flags, "minSeverity") /\ flags.minSeverity \in {"error", "warning", "info"}
   THEN [minSeverity |-> flags.minSeverity] ELSE NoOptions)
  @@ (IF Has(flags, "category") THEN [includedCategories |-> flags.category] ELSE NoOptions)
  @@ (IF Has(flags, "exclude") THEN [excludedCategories |-> flags.exclude] ELSE NoOptions)

\* flags as parsed; category and exclude are the comma lists split and trimmed
FlagChoices ==
  {[minSeverity |-> "info"],
   [minSeverity |-> "error"],
   [minSeverity |-> "fatal"],
   [category |-> <<"theater", "assertions">>],
   [exclude |-> <<"theater">>, minSeverity |-> "warning"]}

CommandFileChoices ==
  {[readable |-> TRUE, content |-> c] : c \in {<<EmptyTest>>, <<WeakTest>>, Neglected}}
    \cup {[readable |-> FALSE, content |-> <<>>]}

CommandDiscoveries ==
  {[i \in 1..Len(q) |-> [path |-> ProjectPaths[i], readable |-> q[i].readable,
                         content |-> q[i].content]] :
     q \in SeqsUpTo(CommandFileChoices, MaxFiles)}

\* the command starts and calls reviewTestFiles(path, reviewOptions)
StartReviewCommand ==
  /\ pc = "idle"
  /\ \E flags \in FlagChoices, files \in CommandDiscoveries :
       IF Len(files) = 0 THEN StartEmptyRun(reviewOptionsOf(flags))
       ELSE StartRun(files, reviewOptionsOf(flags))

\* reviewTestFiles rejects (glob fails on the path) and the command catches it
ReviewThrows ==
  /\ pc = "idle"
  /\ pc' = "exited"
  /\ exitCode' = <<1>>
  /\ UNCHANGED <<options, content, filename, review, testFiles, next, reviewedFiles, report,
                 calls, clock, printed>>

\* the rendering the command prints with the flags json and verbose
rendering(format, r) ==
  CASE format = "json" -> formatAsJSON(r)
    [] format = "text" -> formatReviewReport(r, FALSE)
    [] format = "verbose" -> formatReviewReport(r, TRUE)

\* a command whose exit status looks at the score alone
PrintAndExitOnScore ==
  /\ pc = "done"
  /\ \E format \in {"json", "text", "verbose"} :
       printed' = Append(printed, [kind |-> format, testFiles |-> testFiles,
                                    options |-> options, text |-> rendering(format, report[1])])
  /\ exitCode' = <<IF report[1].summary.overallScore < 50 THEN 1 ELSE 0>>
  /\ pc' = "exited"
  /\ UNCHANGED <<options, content, filename, review, testFiles, next, reviewedFiles, report,
                 calls, clock>>

\* the report came back: print it, then process.exit(1) below the threshold,
\* else the process ends with status 0
PrintAndExit ==
  /\ pc = "done"
  /\ \E format \in {"json", "text", "verbose"} :
       printed' = Append(printed, [kind |-> format, testFiles |-> testFiles,
                                    options |-> options, text |-> rendering(format, report[1])])
  /\ exitCode' = <<IF \/ report[1].summary.overallScore < 50
                      \/ report[1].summary.violationsBySeverity["error"] > 5
                   THEN 1 ELSE 0>>
  /\ pc' = "exited"
  /\ UNCHANGED <<options, content, filename, review, testFiles, next, reviewedFiles, report,
                 calls, clock>>

NextCommand ==
  \/ StartReviewCommand
  \/ ReviewThrows
  \/ ReadAndReview
  \/ SkipUnreadable
  \/ FinishRun
  \/ PrintAndExit

SpecCommand == Init /\ [][NextCommand]_vars

(***************************************************************************)
(* One project run and then renderings of its report, in any order.        *)
(***************************************************************************)
\* the discovered file at position i of a run
discovered(i, c) == [path |-> ProjectPaths[i], readable |-> TRUE, content |-> c]

FormatDiscoveries ==
  {<<>>,
   <<discovered(1, <<WeakTest>>), discovered(2, Neglected)>>,
   <<discovered(1, Neglected), discovered(2, <<WeakTest>>)>>,
   <<discovered(1, Messy), [path |-> ProjectPaths[2], readable |-> FALSE, content |-> <<>>],
     discovered(3, <<EmptyTest>>)>>}

StartFormatRun ==
  /\ pc = "idle"
  /\ \E files \in FormatDiscoveries :
       IF Len(files) = 0 THEN StartEmptyRun(NoOptions) ELSE StartRun(files, NoOptions)

\* a formatReviewReport whose worst-first listing sorts report.files itself
FormatReviewReportSortingInPlace(verbose) ==
  /\ pc = "done"
  /\ LET sorted == IF verbose /\ Len(report[1].files) > 0
                   THEN [report[1] EXCEPT !.files = worstFirst(report[1].files)]
                   ELSE report[1]
     IN  /\ printed' = Append(printed, [kind |-> IF verbose THEN "verbose" ELSE "text",
                                         testFiles |-> testFiles, options |-> options,
                                         text |-> formatReviewReport(sorted, verbose)])
         /\ report' = <<sorted>>
  /\ UNCHANGED <<pc, options, content, filename, review, testFiles, next, reviewedFiles,
                 calls, clock, exitCode>>

\* formatReviewReport(report, verbose) of the report the run returned
FormatReviewReport(verbose) ==
  /\ pc = "done"
  /\ printed' = Append(printed, [kind |-> IF verbose THEN "verbose" ELSE "text",
                                  testFiles |-> testFiles, options |-> options,
                                  text |-> formatReviewReport(report[1], verbose)])
  /\ UNCHANGED <<pc, options, content, filename, review, testFiles, next, reviewedFiles,
                 report, calls, clock, exitCode>>

RenderText ==
  /\ Len(printed) < MaxPrints
  /\ \E verbose \in BOOLEAN : FormatReviewReport(verbose)

RenderJSON ==
  /\ Len(printed) < MaxPrints
  /\ FormatAsJSON

NextFormat ==
  \/ StartFormatRun
  \/ ReadAndReview
  \/ SkipUnreadable
  \/ FinishRun
  \/ RenderText
  \/ RenderJSON

SpecFormat == Init /\ [][NextFormat]_vars

(***************************************************************************)
(* Single reviews over file names and contents that exercise the           *)
(* exemptions and the thresholds of the detectors.                         *)
(***************************************************************************)
DetectLexicon == {AlwaysTrue, PollFetch, MockHeavy, AssertStyle, WeakTest}

DetectContents == SeqsUpTo(DetectLexicon, MaxLen)

DetectFilenames == {UnitName, E2eFolderName, E2eName, IntegrationName}

DetectOptionChoices ==
  {NoOptions,
   [minSeverity |-> "warning"],
   [minSeverity |-> "error"],
   [includedCategories |-> <<"flaky", "over-mocking">>],
   [excludedCategories |-> <<"theater">>],
   NothingSelected,
   [rules |-> withThrowing("theater/always-true")]}

\* a caller reviews one named file
ReviewNamed ==
  \E c \in DetectContents, f \in DetectFilenames, o \in DetectOptionChoices :
    ReviewTestFile(c, f, o)

NextDetect == ReviewNamed

SpecDetect == Init /\ [][NextDetect]_vars

(***************************************************************************)
(* Claims.  Returned: reviewTestFile has returned the ReviewedFile in      *)
(* review[1]; Reported: reviewTestFiles has returned the report.           *)
(***************************************************************************)
Returned == review # <<>>

Reported == pc = "done" /\ report # <<>>

\* the ReviewedFiles the state holds: the last one returned and the run's
Reviewed == {review[i] : i \in 1..Len(review)}
              \cup {reviewedFiles[i] : i \in 1..Len(reviewedFiles)}

scoreOf(breakdown, category) ==
  LET i == CHOOSE i \in 1..Len(breakdown) : breakdown[i].category = category
  IN  breakdown[i].score

\* C1: every score the reviewer produces is an integer from 0 to 100: the
\* file score and each category score of every ReviewedFile and, when the
\* list of reviewed files is not empty, the aggregate category scores and
\* the overall score.
C1_ScoresInRange ==
  /\ \A file \in Reviewed :
       /\ file.score \in 0..100
       /\ \A i \in 1..Len(file.scoreBreakdown) : file.scoreBreakdown[i].score \in 0..100
  /\ (Reported /\ Len(report[1].files) > 0) =>
       /\ report[1].summary.overallScore \in 0..100
       /\ \A i \in 1..Len(report[1].summary.scoreBreakdown) :
            report[1].summary.scoreBreakdown[i].score \in 0..100

\* a finished run over files one of which has a category whose deductions
\* exceed the category's budget, so that its score is clamped
C1_Witness ==
  /\ Reported
  /\ Len(report[1].files) > 1
  /\ report[1].summary.overallScore < 100
  /\ \E f \in 1..Len(report[1].files) :
       \E i \in 1..Len(report[1].files[f].scoreBreakdown) :
         LET cs == report[1].files[f].scoreBreakdown[i]
         IN  cs.actualDeduction > 10 * cs.maxDeduction /\ cs.maxDeduction > 0 /\ cs.score = 0

\* C2: a file reviewed with zero violations scores 100 and each of its
\* seven category scores is 100, whatever the rule selection, the empty
\* selection included.
C2_CleanFileScores100 ==
  \A file \in Reviewed :
    Len(file.violations) = 0 =>
      /\ file.score = 100
      /\ Len(file.scoreBreakdown) = 7
      /\ \A i \in 1..Len(file.scoreBreakdown) : file.scoreBreakdown[i].score = 100

\* the filters removed every rule and a file with a test in it was reviewed
C2_Witness ==
  /\ Returned
  /\ filterRules(options) = <<>>
  /\ Test(content, "testCall")
  /\ Len(review[1].violations) = 0
  /\ review[1].score = 100

\* the sum of the weights of the selected rules of a category
selectedWeight(selected, category) ==
  SumSeq([i \in 1..Len(selected) |->
            IF selected[i].category = category THEN selected[i].weight ELSE 0])

\* the sum, in tenths, of weight x multiplier over the violations of a category
violationDeduction(violations, category) ==
  SumSeq([k \in 1..Len(violations) |->
            LET rule == findRule(violations[k].ruleId)
            IN  IF rule.category = category
                THEN rule.weight * SEVERITY_MULTIPLIERS[rule.severity] ELSE 0])

\* round(100 - actual / max * 100) in exact arithmetic, actual in tenths,
\* a value ending in .5 rounded up as Math.round does
exactRound(maxDeduction, actualTenths) ==
  (200 * maxDeduction - 20 * actualTenths + maxDeduction) \div (2 * maxDeduction)

\* C3: in every ReviewedFile, for each category, maxDeduction is the sum of
\* the weights of the selected rules of the category, actualDeduction is the
\* sum of weight x multiplier over the file's violations of the category, and
\* the score is max(0, round(100 - actualDeduction / maxDeduction * 100))
\* when maxDeduction > 0 and 100 otherwise.
C3_CategoryScoreFormula ==
  \A file \in Reviewed :
    \A i \in 1..Len(file.scoreBreakdown) :
      LET cs == file.scoreBreakdown[i]
          maxDeduction == selectedWeight(filterRules(options), cs.category)
          actual == violationDeduction(file.violations, cs.category)
      IN  /\ cs.maxDeduction = maxDeduction
          /\ cs.actualDeduction = actual
          /\ cs.score = IF maxDeduction > 0
                        THEN Max(0, exactRound(maxDeduction, actual))
                        ELSE 100

\* C4: every ReviewedFile has exactly seven category scores, one per
\* category, with the weights 20, 25, 15, 15, 10, 10 and 5 whatever the
\* filters, summing to 100, and its score is round(sum(score x weight) / 100).
C4_SevenWeightedCategories ==
  \A file \in Reviewed :
    LET sb == file.scoreBreakdown
        weightOf == [c \in CategorySet |->
                       CASE c = "flaky" -> 20 [] c = "theater" -> 25
                         [] c = "over-mocking" -> 15 [] c = "assertions" -> 15
                         [] c = "isolation" -> 10 [] c = "maintainability" -> 10
                         [] c = "structure" -> 5]
    IN  /\ Len(sb) = 7
        /\ \A c \in CategorySet : Cardinality({i \in 1..7 : sb[i].category = c}) = 1
        /\ \A i \in 1..7 : sb[i].weight = weightOf[sb[i].category]
        /\ SumSeq([i \in 1..7 |-> sb[i].weight]) = 100
        /\ file.score = (2 * SumSeq([i \in 1..7 |-> sb[i].score * sb[i].weight]) + 100) \div 200

\* a file reviewed under a filter that leaves some categories without rules,
\* with scores that differ between categories
C4_Witness ==
  /\ Returned
  /\ "includedCategories" \in DOMAIN options
  /\ \E c \in CategorySet : selectedWeight(filterRules(options), c) = 0
  /\ review[1].score \in 1..99
  /\ \E i, j \in 1..Len(review[1].scoreBreakdown) :
       review[1].scoreBreakdown[i].score # review[1].scoreBreakdown[j].score

ScenarioA == Returned /\ content = <<EmptyTest>> /\ options = NoOptions

\* C5 as the specification states it: reviewing it('should work', () => {})
\* with every rule selected yields exactly one violation, theater/empty-test,
\* a theater score of 76, every other category score 100 and a file score
\* of 94.
C5_ScenarioA_AsStated ==
  ScenarioA =>
    /\ Len(review[1].violations) = 1
    /\ review[1].violations[1].ruleId = "theater/empty-test"
    /\ \A c \in CategorySet :
         scoreOf(review[1].scoreBreakdown, c) = IF c = "theater" THEN 76 ELSE 100
    /\ review[1].score = 94

\* C5 (amended): reviewing it('should work', () => {}) with every rule
\* selected yields four violations, in this order: theater/no-assertions,
\* theater/empty-test, maintain/poor-test-name and structure/missing-describe,
\* all on line 1; the theater score is 52, maintainability 94, structure 93,
\* every other category score 100, and the file score is 87.
C5_ScenarioA ==
  ScenarioA =>
    /\ review[1].violations =
         << [ruleId |-> "theater/no-assertions", line |-> 1],
            [ruleId |-> "theater/empty-test", line |-> 1],
            [ruleId |-> "maintain/poor-test-name", line |-> 1],
            [ruleId |-> "structure/missing-describe", line |-> 1] >>
    /\ \A c \in CategorySet :
         scoreOf(review[1].scoreBreakdown, c) =
           CASE c = "theater" -> 52
             [] c = "maintainability" -> 94
             [] c = "structure" -> 93
             [] OTHER -> 100
    /\ review[1].score = 87

C5_Witness == ScenarioA /\ review[1].score = 87 /\ Len(review[1].violations) = 4

\* the deduction, in tenths, that the violations of one rule add up to
ruleDeduction(violations, rule) ==
  SumSeq([k \in 1..Len(violations) |->
            IF violations[k].ruleId = rule.id
            THEN rule.weight * SEVERITY_MULTIPLIERS[rule.severity] ELSE 0])

ruleCount(violations, rule) ==
  Len(SelectSeq(violations, LAMBDA v : v.ruleId = rule.id))

\* C6 as the specification states it: the total deduction of one rule is at
\* most the rule's weight however often it fires, and so a category's
\* actualDeduction never exceeds its maxDeduction.
C6_RuleDeductionCapped_AsStated ==
  \A file \in Reviewed :
    /\ \A i \in 1..Len(allRules) :
         ruleDeduction(file.violations, allRules[i]) <= 10 * allRules[i].weight
    /\ \A i \in 1..Len(file.scoreBreakdown) :
         file.scoreBreakdown[i].actualDeduction <= 10 * file.scoreBreakdown[i].maxDeduction

\* C6 (amended): one violation deducts weight x multiplier, which is at most
\* the rule's weight; a rule that fires n times deducts n times that, with no
\* cap, and a category's actualDeduction is the sum over its rules; where it
\* reaches or exceeds maxDeduction the category score is 0.
C6_DeductionPerViolation ==
  \A file \in Reviewed :
    /\ \A i \in 1..Len(allRules) :
         LET rule == allRules[i]
             once == rule.weight * SEVERITY_MULTIPLIERS[rule.severity]
         IN  /\ once <= 10 * rule.weight
             /\ ruleDeduction(file.violations, rule) = ruleCount(file.violations, rule) * once
    /\ \A i \in 1..Len(file.scoreBreakdown) :
         LET cs == file.scoreBreakdown[i]
             ofCategory == SelectSeq(allRules, LAMBDA r : r.category = cs.category)
         IN  /\ cs.actualDeduction =
                  SumSeq([k \in 1..Len(ofCategory) |->
                            ruleDeduction(file.violations, ofCategory[k])])
             /\ (cs.maxDeduction > 0 /\ cs.actualDeduction >= 10 * cs.maxDeduction)
                  => cs.score = 0

\* a rule fired often enough to deduct more than its weight, and its
\* category's deductions exceed the category's budget
C6_Witness ==
  /\ Returned
  /\ \E i \in 1..Len(allRules) :
       ruleDeduction(review[1].violations, allRules[i]) > 10 * allRules[i].weight
  /\ \E i \in 1..Len(review[1].scoreBreakdown) :
       LET cs == review[1].scoreBreakdown[i]
       IN  cs.maxDeduction > 0 /\ cs.actualDeduction > 10 * cs.maxDeduction /\ cs.score = 0

idsOf(rules) == [i \in 1..Len(rules) |-> rules[i].id]

atLeast(severity, minSeverity) ==
  indexOf(severityOrder, severity) >= indexOf(severityOrder, minSeverity)

\* C7 as the specification states it: filterRules returns, in catalog order,
\* exactly the catalog rules whose category is in includedCategories whenever
\* that option is present (a present but empty one selects no rule), whose
\* category is not in excludedCategories, and whose severity is at least
\* minSeverity.
C7_FilterRules_AsStated ==
  pc # "idle" =>
    idsOf(filterRules(options)) =
      idsOf(SelectSeq(allRules,
              LAMBDA r :
                /\ Has(options, "includedCategories")
                     => includes(options.includedCategories, r.category)
                /\ Has(options, "excludedCategories")
                     => ~includes(options.excludedCategories, r.category)
                /\ Has(options, "minSeverity") => atLeast(r.severity, options.minSeverity)))

\* C7 (amended): filterRules returns, in catalog order, exactly the catalog
\* rules whose category is in includedCategories whenever that option is
\* present and not empty (a present but empty one restricts nothing), whose
\* category is not in excludedCategories, and whose severity is at least
\* minSeverity.
C7_FilterRules ==
  pc # "idle" =>
    idsOf(filterRules(options)) =
      idsOf(SelectSeq(allRules,
              LAMBDA r :
                /\ (Has(options, "includedCategories") /\ options.includedCategories # <<>>)
                     => includes(options.includedCategories, r.category)
                /\ Has(options, "excludedCategories")
                     => ~includes(options.excludedCategories, r.category)
                /\ Has(options, "minSeverity") => atLeast(r.severity, options.minSeverity)))

\* a file reviewed with an empty includedCategories and an excluded category:
\* the rules of every other category are selected and report violations
C7_Witness ==
  /\ Returned
  /\ Has(options, "includedCategories") /\ options.includedCategories = <<>>
  /\ Has(options, "excludedCategories")
  /\ Len(filterRules(options)) \in 1..(Len(allRules) - 1)
  /\ Len(review[1].violations) > 0

\* C8: with a non-empty includedCategories every violation is of a rule of
\* one of those categories; with a non-empty excludedCategories no violation
\* is of a rule of one of those; with both, no violation comes from a
\* category either filter removes.
C8_CategoryFilters ==
  \A file \in Reviewed :
    \A k \in 1..Len(file.violations) :
      LET category == findRule(file.violations[k].ruleId).category
      IN  /\ (Has(options, "includedCategories") /\ options.includedCategories # <<>>)
               => includes(options.includedCategories, category)
          /\ (Has(options, "excludedCategories") /\ options.excludedCategories # <<>>)
               => ~includes(options.excludedCategories, category)

\* both filters given, violations reported, and the unfiltered review of the
\* same file has violations of an excluded category
C8_Witness ==
  /\ Returned
  /\ Has(options, "includedCategories") /\ options.includedCategories # <<>>
  /\ Has(options, "excludedCategories") /\ options.excludedCategories # <<>>
  /\ Len(review[1].violations) > 0
  /\ LET unfiltered == reviewTestFile(content, filename, NoOptions).violations
     IN  \E k \in 1..Len(unfiltered) :
           includes(options.excludedCategories, findRule(unfiltered[k].ruleId).category)

RECURSIVE IsSubsequence(_, _)
IsSubsequence(a, b) ==
  IF a = <<>> THEN TRUE
  ELSE IF b = <<>> THEN FALSE
  ELSE IF Head(a) = Head(b) THEN IsSubsequence(Tail(a), Tail(b))
  ELSE IsSubsequence(a, Tail(b))

without(opts, field) == [f \in DOMAIN opts \ {field} |-> opts[f]]

\* the options that differ from the state's in a looser minSeverity, or none
Looser ==
  IF Has(options, "minSeverity")
  THEN {without(options, "minSeverity")}
         \cup {[options EXCEPT !.minSeverity = m] :
                 m \in {m \in {"info", "warning", "error"} : atLeast(options.minSeverity, m)}}
  ELSE {}

\* C9: the violations returned under a stricter minSeverity are a
\* subsequence of those returned, for the same content and other options,
\* under a looser one.
C9_SeverityMonotone ==
  Returned =>
    \A looser \in Looser :
      IsSubsequence(review[1].violations,
                    reviewTestFile(content, filename, looser).violations)

\* under minSeverity error some violations stay and the review under info of
\* the same file has more
C9_Witness ==
  /\ Returned
  /\ Has(options, "minSeverity") /\ options.minSeverity = "error"
  /\ Len(review[1].violations) > 0
  /\ Len(reviewTestFile(content, filename, [options EXCEPT !.minSeverity = "info"]).violations)
       > Len(review[1].violations)

\* the selected rules whose detect throws
Thrown ==
  IF Has(options, "rules")
  THEN LET selected == filterRules(options)
       IN  {selected[i].id : i \in {i \in 1..Len(selected) : selected[i].detect = "throws"}}
  ELSE {}

\* C10: when the detect of a selected rule throws, reviewTestFile still
\* returns; that rule contributes no violation and the violations of the
\* other rules are those of the run in which it returned an empty list, in
\* the same order.
C10_ThrowContained ==
  (Thrown # {} /\ (pc = "returned" \/ Returned)) =>
    /\ Returned
    /\ \A k \in 1..Len(review[1].violations) : review[1].violations[k].ruleId \notin Thrown
    /\ review[1].violations =
         SelectSeq(reviewTestFile(content, filename, without(options, "rules")).violations,
                   LAMBDA v : v.ruleId \notin Thrown)

\* a rule that would have fired throws, and rules before it and after it in
\* the catalog report their violations
C10_Witness ==
  /\ Returned
  /\ Thrown = {"theater/no-assertions"}
  /\ Test(content, "testBlockNoAssertion")
  /\ \E k \in 1..Len(review[1].violations) :
       review[1].violations[k].ruleId = "flaky/timing-dependency"
  /\ \E k \in 1..Len(review[1].violations) :
       review[1].violations[k].ruleId = "theater/empty-test"

\* position of a rule id in the catalog, in registration order
registrationIndex(ruleId) ==
  CHOOSE i \in 1..Len(allRules) : allRules[i].id = ruleId

\* C11: in ReviewedFile.violations the violations of an earlier-registered
\* rule all come before those of a later-registered rule, and the violations
\* of one rule come in the order of their matches in the text, that is with
\* non-decreasing line numbers, also when the rule scans with several patterns.
C11_ViolationsInTextOrder ==
  \A r \in Reviewed :
    \A j, k \in 1..Len(r.violations) :
      j < k =>
        /\ registrationIndex(r.violations[j].ruleId) <= registrationIndex(r.violations[k].ruleId)
        /\ r.violations[j].ruleId = r.violations[k].ruleId =>
             r.violations[j].line <= r.violations[k].line

\* C12: a project run that ends with zero reviewed files, because nothing was
\* discovered or because every discovered file was unreadable, returns a
\* summary with overallScore 0 and totalFiles, totalTests, totalAssertions and
\* totalViolations all 0.
C12_NoReviewedFilesScoreZero ==
  (Reported /\ Len(report[1].files) = 0) =>
    /\ report[1].summary.overallScore = 0
    /\ report[1].summary.totalFiles = 0
    /\ report[1].summary.totalTests = 0
    /\ report[1].summary.totalAssertions = 0
    /\ report[1].summary.totalViolations = 0

\* the messages of a recommendations list
messagesOf(recommendations) == {recommendations[i] : i \in 1..Len(recommendations)}

\* C13: when discovery finds no test file, reviewTestFiles returns a report
\* with an empty file list, totalFiles 0, overallScore 0, and recommendations
\* that hold the 'No test files found' message and neither the positive
\* message for a good score nor the 'no issues' message.
C13_NothingDiscovered ==
  (Reported /\ Len(testFiles) = 0) =>
    /\ report[1].files = <<>>
    /\ report[1].summary.totalFiles = 0
    /\ report[1].summary.overallScore = 0
    /\ Msg("no-test-files") \in messagesOf(report[1].recommendations)
    /\ Msg("good-quality") \notin messagesOf(report[1].recommendations)
    /\ Msg("no-issues") \notin messagesOf(report[1].recommendations)

C13_Witness ==
  /\ Reported
  /\ Len(testFiles) = 0
  /\ report[1].recommendations = <<Msg("no-test-files")>>
  /\ report[1].summary.totalViolations = 0

\* the discovered files that could be read, in discovery order
readableOf(files) == SelectSeq(files, LAMBDA f : f.readable)

\* the reviews of a list of read files under the options of the run
reviewsOf(files, opts) ==
  [i \in 1..Len(files) |-> reviewTestFile(files[i].content, files[i].path, opts)]

\* C14: whichever of the discovered files fail to be read, the run goes on to
\* its end, and report.files is exactly the subsequence of the discovered
\* files that were read, in discovery order, each with its complete review;
\* an unreadable file is nowhere in the report and adds nothing to
\* totalFiles, totalTests, totalAssertions or totalViolations.
C14_UnreadableSkipped ==
  /\ pc = "reviewing" =>
       /\ next \in 1..(Len(testFiles) + 1)
       /\ reviewedFiles = reviewsOf(readableOf(slice(testFiles, next - 1)), options)
  /\ (Reported /\ Len(testFiles) > 0) =>
       LET read == readableOf(testFiles)
           files == report[1].files
       IN  /\ next = Len(testFiles) + 1
           /\ files = reviewsOf(read, options)
           /\ \A i \in 1..Len(files) : files[i].path = read[i].path
           /\ \A i \in 1..Len(testFiles) :
                ~testFiles[i].readable =>
                  \A k \in 1..Len(files) : files[k].path # testFiles[i].path
           /\ report[1].summary.totalFiles = Len(read)
           /\ report[1].summary.totalTests =
                SumSeq([i \in 1..Len(read) |-> countTests(read[i].content)])
           /\ report[1].summary.totalAssertions =
                SumSeq([i \in 1..Len(read) |-> countAssertions(read[i].content)])
           /\ report[1].summary.totalViolations =
                SumSeq([i \in 1..Len(files) |-> Len(files[i].violations)])

C14_Witness ==
  /\ Reported
  /\ Len(testFiles) = 2
  /\ ~testFiles[1].readable
  /\ testFiles[2].readable
  /\ Len(report[1].files) = 1
  /\ report[1].files[1].path = "b.test.ts"
  /\ report[1].summary.totalFiles = 1
  /\ report[1].summary.totalViolations > 0
  /\ report[1].summary.totalTests > 0

\* C15: the summary's totalFiles is the number of reviewed files, totalTests
\* the sum of their testCount, totalAssertions the sum of their
\* assertionCount, totalViolations the sum of the lengths of their violation
\* lists; the seven per-category tallies sum to totalViolations and so do
\* the three per-severity tallies.
C15_TotalsAndTallies ==
  (Reported /\ Len(testFiles) > 0) =>
    LET files == report[1].files
        summary == report[1].summary
    IN  /\ summary.totalFiles = Len(files)
        /\ summary.totalTests = SumSeq([i \in 1..Len(files) |-> files[i].testCount])
        /\ summary.totalAssertions = SumSeq([i \in 1..Len(files) |-> files[i].assertionCount])
        /\ summary.totalViolations = SumSeq([i \in 1..Len(files) |-> Len(files[i].violations)])
        /\ DOMAIN summary.violationsByCategory = CategorySet
        /\ SumSeq([i \in 1..Len(Categories) |-> summary.violationsByCategory[Categories[i]]])
             = summary.totalViolations
        /\ DOMAIN summary.violationsBySeverity = {"error", "warning", "info"}
        /\ SumSeq([i \in 1..Len(severityOrder) |-> summary.violationsBySeverity[severityOrder[i]]])
             = summary.totalViolations

C15_Witness ==
  /\ Reported
  /\ Len(report[1].files) = 2
  /\ report[1].files[1].testCount # report[1].files[2].testCount
  /\ \A i \in 1..2 : Len(report[1].files[i].violations) > 0
  /\ \A sev \in {"error", "warning", "info"} : report[1].summary.violationsBySeverity[sev] > 0
  /\ Cardinality({c \in CategorySet : report[1].summary.violationsByCategory[c] > 0}) >= 5
  /\ report[1].summary.totalAssertions > 0

\* m is sum / n rounded to the nearest integer, a half rounding up
isRoundedMean(m, scores) ==
  LET n == Len(scores)
  IN  /\ 2 * n * m - n <= 2 * SumSeq(scores)
      /\ 2 * SumSeq(scores) < 2 * n * m + n

\* the scores one category got in each of the files
categoryScoresOf(files, category) ==
  [i \in 1..Len(files) |-> scoreOf(files[i].scoreBreakdown, category)]

\* the weighted mean of the aggregate category scores, rounded
weightedAggregate(breakdown) ==
  LET weights == [i \in 1..Len(breakdown) |-> breakdown[i].weight]
      products == [i \in 1..Len(breakdown) |-> breakdown[i].weight * breakdown[i].score]
  IN  (2 * SumSeq(products) + SumSeq(weights)) \div (2 * SumSeq(weights))

\* C16: for a non-empty list of reviewed files, overallScore is the rounded
\* arithmetic mean of the files' scores (of the file scores alone, not of the
\* aggregate category scores), and each aggregate category score is the
\* rounded arithmetic mean of that category's score over all reviewed files.
C16_MeansOfFileScores ==
  (Reported /\ Len(report[1].files) > 0) =>
    LET files == report[1].files
        summary == report[1].summary
    IN  /\ isRoundedMean(summary.overallScore, [i \in 1..Len(files) |-> files[i].score])
        /\ Len(summary.scoreBreakdown) = Len(Categories)
        /\ \A i \in 1..Len(Categories) :
             /\ summary.scoreBreakdown[i].category = Categories[i]
             /\ isRoundedMean(summary.scoreBreakdown[i].score,
                              categoryScoresOf(files, Categories[i]))

\* two files whose mean score ends in a half, in a report whose overallScore
\* is not what the aggregate category scores would give
C16_Witness ==
  /\ Reported
  /\ Len(report[1].files) = 2
  /\ (report[1].files[1].score + report[1].files[2].score) % 2 = 1
  /\ report[1].summary.overallScore # weightedAggregate(report[1].summary.scoreBreakdown)
  /\ \E i \in 1..Len(Categories) :
       report[1].files[1].scoreBreakdown[i].score # report[1].files[2].scoreBreakdown[i].score

\* all violations of the files of a report, and the rule ids among them
violationsIn(files) == Flat([i \in 1..Len(files) |-> files[i].violations])

firedIn(files) == {violationsIn(files)[k].ruleId : k \in 1..Len(violationsIn(files))}

occurrences(files, ruleId) ==
  Len(SelectSeq(violationsIn(files), LAMBDA v : v.ruleId = ruleId))

\* an issue of severity s1 and count c1 may stand before one of s2 and c2
mayPrecede(s1, c1, s2, c2) ==
  \/ indexOf(severityOrder, s1) > indexOf(severityOrder, s2)
  \/ s1 = s2 /\ c1 >= c2

\* C17: topIssues has at most 10 entries and at most one per rule id; an
\* entry's count is the number of violations of its rule over all reviewed
\* files; error entries come before warning entries before info entries
\* and, within a severity, counts do not increase; when more than 10 distinct
\* rules fired, the entries kept are the first 10 of that order.
C17_TopIssues ==
  (Reported /\ Len(testFiles) > 0) =>
    LET files == report[1].files
        top == report[1].summary.topIssues
        kept == {top[i].rule : i \in 1..Len(top)}
    IN  /\ Len(top) <= 10
        /\ Len(top) = IF Cardinality(firedIn(files)) > 10 THEN 10
                      ELSE Cardinality(firedIn(files))
        /\ kept \subseteq firedIn(files)
        /\ \A i, j \in 1..Len(top) : top[i].rule = top[j].rule => i = j
        /\ \A i \in 1..Len(top) :
             /\ top[i].count = occurrences(files, top[i].rule)
             /\ top[i].severity = findRule(top[i].rule).severity
        /\ \A i, j \in 1..Len(top) :
             i < j => mayPrecede(top[i].severity, top[i].count, top[j].severity, top[j].count)
        /\ \A i \in 1..Len(top) : \A dropped \in firedIn(files) \ kept :
             mayPrecede(top[i].severity, top[i].count,
                        findRule(dropped).severity, occurrences(files, dropped))

C17_Witness ==
  /\ Reported
  /\ Cardinality(firedIn(report[1].files)) > 10
  /\ Len(report[1].summary.topIssues) = 10
  /\ \E i, j \in 1..10 :
       /\ report[1].summary.topIssues[i].severity = "error"
       /\ report[1].summary.topIssues[j].severity = "warning"
  /\ \E i, j \in 1..10 :
       /\ report[1].summary.topIssues[i].severity = report[1].summary.topIssues[j].severity
       /\ report[1].summary.topIssues[i].count > report[1].summary.topIssues[j].count

\* the kinds of recommendation, in the order the report lists them
messageOrder ==
  <<"theater", "flaky", "over-mocking", "isolation", "low-score", "low-assertion-density",
    "good-quality", "no-issues", "focus-area">>

\* the condition under which the summary earns the message of one kind
applies(about, summary) ==
  CASE about = "theater" -> summary.violationsByCategory["theater"] > 0
    [] about = "flaky" -> summary.violationsByCategory["flaky"] > 3
    [] about = "over-mocking" -> summary.violationsByCategory["over-mocking"] > 2
    [] about = "isolation" -> summary.violationsByCategory["isolation"] > 0
    [] about = "low-score" -> summary.overallScore < 60
    [] about = "low-assertion-density" ->
         summary.totalTests > 0 /\ summary.totalAssertions < summary.totalTests
    [] about = "good-quality" -> summary.overallScore >= 80
    [] about = "no-issues" -> summary.totalViolations = 0

\* C18: for a run with at least one reviewed file the recommendations hold
\* exactly the messages whose condition holds, each once, in the order
\* theater > 0, flaky > 3, over-mocking > 2, isolation > 0, overallScore < 60,
\* fewer assertions than tests, overallScore >= 80, totalViolations = 0, and
\* the focus-area messages last.
C18_Recommendations ==
  (Reported /\ Len(report[1].files) > 0) =>
    LET recs == report[1].recommendations
        summary == report[1].summary
    IN  /\ \A k \in 1..Len(recs) : recs[k].about \in messagesOf(messageOrder)
        /\ \A i \in 1..(Len(messageOrder) - 1) :
             applies(messageOrder[i], summary)
               <=> (\E k \in 1..Len(recs) : recs[k] = Msg(messageOrder[i]))
        /\ \A j, k \in 1..Len(recs) :
             j < k =>
               \/ indexOf(messageOrder, recs[j].about) < indexOf(messageOrder, recs[k].about)
               \/ recs[j].about = "focus-area" /\ recs[k].about = "focus-area"

C18_Witness ==
  /\ Reported
  /\ Len(report[1].files) > 0
  /\ Cardinality({i \in 1..8 : applies(messageOrder[i], report[1].summary)}) >= 4
  /\ applies("isolation", report[1].summary)
  /\ applies("low-assertion-density", report[1].summary)
  /\ ~applies("good-quality", report[1].summary)
  /\ \E k \in 1..Len(report[1].recommendations) :
       report[1].recommendations[k].about = "focus-area"

\* the focus-area messages of a recommendations list
focusOf(recommendations) == SelectSeq(recommendations, LAMBDA r : r.about = "focus-area")

\* C19: a report has at most two focus-area messages; a category gets one
\* exactly when it has at least one violation, an aggregate score below 70,
\* and is one of the two lowest-scoring categories among those with at least
\* one violation; the messages come lowest score first and after every other
\* recommendation.  (Which of several categories with equal scores counts as
\* lower is left open.)
C19_FocusAreas ==
  Reported =>
    LET recs == report[1].recommendations
        focus == focusOf(recs)
        breakdown == report[1].summary.scoreBreakdown
        withViolations == {i \in 1..Len(breakdown) : breakdown[i].violations > 0}
        lower(i) == {j \in withViolations : breakdown[j].score < breakdown[i].score}
        notHigher(i) == {j \in withViolations \ {i} : breakdown[j].score <= breakdown[i].score}
        below70 == {i \in withViolations : breakdown[i].score < 70}
    IN  /\ Len(focus) <= 2
        /\ Len(focus) = IF Cardinality(below70) > 2 THEN 2 ELSE Cardinality(below70)
        /\ \A j, k \in 1..Len(focus) : focus[j].category = focus[k].category => j = k
        /\ \A k \in 1..Len(focus) :
             \E i \in below70 :
               /\ breakdown[i].category = focus[k].category
               /\ breakdown[i].score = focus[k].score
               /\ Cardinality(lower(i)) < 2
        /\ \A i \in below70 :
             Cardinality(notHigher(i)) < 2 =>
               \E k \in 1..Len(focus) : focus[k].category = breakdown[i].category
        /\ \A j, k \in 1..Len(focus) : j < k => focus[j].score <= focus[k].score
        /\ \A j, k \in 1..Len(recs) :
             (j < k /\ recs[j].about = "focus-area") => recs[k].about = "focus-area"

\* two focus-area messages of different scores, the lower one for a category
\* that comes later in the catalog, after other recommendations, while a
\* third category with violations and a score below 70 gets none
C19_Witness ==
  /\ Reported
  /\ Len(focusOf(report[1].recommendations)) = 2
  /\ Len(report[1].recommendations) > 3
  /\ LET focus == focusOf(report[1].recommendations)
     IN  /\ focus[1].score < focus[2].score
         /\ indexOf(Categories, focus[1].category) > indexOf(Categories, focus[2].category)
  /\ Cardinality({i \in 1..Len(report[1].summary.scoreBreakdown) :
                    /\ report[1].summary.scoreBreakdown[i].violations > 0
                    /\ report[1].summary.scoreBreakdown[i].score < 70}) > 2

\* what a logged call was given
inputOf(call) == [content |-> call.content, filename |-> call.filename, options |-> call.options]

jsonOutputs == SelectSeq(printed, LAMBDA p : p.kind = "json")

\* C21: two project runs over the same root directory that discover the same
\* files with the same contents under the same options give byte-identical
\* JSON from formatAsJSON, whatever the time at which each run executes.
C21_SameInputsSameJSON ==
  \A i, j \in 1..Len(jsonOutputs) :
    (jsonOutputs[i].testFiles = jsonOutputs[j].testFiles
       /\ jsonOutputs[i].options = jsonOutputs[j].options)
      => jsonOutputs[i].text = jsonOutputs[j].text

\* the error-severity violations of the files of a report
errorCount(files) ==
  Len(SelectSeq(violationsIn(files), LAMBDA v : findRule(v.ruleId).severity = "error"))

\* C22: after a review that returned a report the review command exits with
\* a non-zero status exactly when overallScore < 50 or the number of
\* error-severity violations is greater than 5; a review that throws also
\* exits non-zero.
C22_ExitStatus ==
  /\ pc # "exited" => exitCode = <<>>
  /\ pc = "exited" =>
       /\ Len(exitCode) = 1
       /\ report = <<>> => exitCode[1] # 0
       /\ report # <<>> =>
            (exitCode[1] # 0 <=> \/ report[1].summary.overallScore < 50
                                 \/ errorCount(report[1].files) > 5)

\* a run that passes on its score and fails on its errors, and was printed
C22_Witness ==
  /\ pc = "exited"
  /\ report # <<>>
  /\ report[1].summary.overallScore >= 50
  /\ errorCount(report[1].files) > 5
  /\ exitCode = <<1>>
  /\ Len(printed) = 1

\* C23: testCount and assertionCount of a reviewed file are the same under
\* every rule selection (they are those of the full catalog and those of the
\* empty selection), whether or not a rule fired or failed; the content
\* `expect(true).toBe(true); expect(1).toBe(1);` has 0 tests and 2 assertions
\* and, under the full catalog, two theater/always-true violations.
C23_CountsIgnoreSelection ==
  pc = "returned" =>
    /\ \A o \in {NoOptions, NothingSelected} :
         \A other \in {reviewTestFile(content, filename, o)} :
           /\ other.testCount = review[1].testCount
           /\ other.assertionCount = review[1].assertionCount
    /\ content = <<AlwaysTrue>> =>
         /\ review[1].testCount = 0
         /\ review[1].assertionCount = 2
         /\ options = NoOptions =>
              /\ Len(review[1].violations) = 2
              /\ \A i \in 1..2 : review[1].violations[i].ruleId = "theater/always-true"

\* the empty selection: no rule ran, and the assertions are counted all the same
C23_Witness ==
  /\ pc = "returned"
  /\ content = <<AlwaysTrue>>
  /\ options = NothingSelected
  /\ filterRules(options) = <<>>
  /\ review[1].violations = <<>>
  /\ review[1].testCount = 0
  /\ review[1].assertionCount = 2

\* the violations of one rule, and of all the other rules, in reported order
violationsOfRule(violations, id) == SelectSeq(violations, LAMBDA v : v.ruleId = id)
violationsExceptRule(violations, id) == SelectSeq(violations, LAMBDA v : v.ruleId # id)

\* the file name marks an integration or e2e test
exempt(name) == FilenameFacts[name].dotE2e \/ FilenameFacts[name].dotIntegration

\* C24: the file name influences detection only by exempting files: for the
\* same content and options a review under any other file name reports the
\* same violations of every rule except flaky/network-dependency;
\* flaky/network-dependency reports nothing when the name contains '.e2e.' or
\* '.integration.' and the same violations for all other names.
C24_FilenameOnlyExempts ==
  pc = "returned" =>
    /\ exempt(filename) =>
         violationsOfRule(review[1].violations, "flaky/network-dependency") = <<>>
    /\ \A other \in DetectFilenames :
         \A renamed \in {reviewTestFile(content, other, options)} :
           /\ violationsExceptRule(renamed.violations, "flaky/network-dependency")
                = violationsExceptRule(review[1].violations, "flaky/network-dependency")
           /\ (~exempt(filename) /\ ~exempt(other)) =>
                violationsOfRule(renamed.violations, "flaky/network-dependency")
                  = violationsOfRule(review[1].violations, "flaky/network-dependency")

\* an integration test with a network call: the network rule is silent, the
\* timing rule is not, and under a unit-test name the network rule fires
C24_Witness ==
  /\ pc = "returned"
  /\ filename = IntegrationName
  /\ options = NoOptions
  /\ content = <<PollFetch, WeakTest>>
  /\ violationsOfRule(review[1].violations, "flaky/network-dependency") = <<>>
  /\ violationsOfRule(review[1].violations, "flaky/timing-dependency") # <<>>
  /\ violationsOfRule(reviewTestFile(content, E2eFolderName, options).violations,
                      "flaky/network-dependency") # <<>>

\* the mock registrations the rule totals: jest.mock, vi.mock, spyOn, fn and
\* .mockImplementation calls
mockRegistrations(text) ==
  CountAll(text, "jestMock") + CountAll(text, "viMock") + CountAll(text, "spyOn")
    + CountAll(text, "mockFn") + CountAll(text, "mockImplementation")

\* the rule is among the selected rules and its detect does not throw
checks(opts, id) ==
  \E i \in 1..Len(filterRules(opts)) :
    filterRules(opts)[i].id = id /\ filterRules(opts)[i].detect # "throws"

\* C25: mock/excessive-mocking reports at most one violation per file, and
\* exactly one if and only if the file's mock registrations are more than 5
\* and more than 2 times the assertionCount reported for the file.
C25_ExcessiveMockingThreshold ==
  (pc = "returned" /\ checks(options, "mock/excessive-mocking")) =>
    LET fired == violationsOfRule(review[1].violations, "mock/excessive-mocking")
    IN  /\ Len(fired) <= 1
        /\ Len(fired) = 1 <=> /\ mockRegistrations(content) > 5
                               /\ mockRegistrations(content) > 2 * review[1].assertionCount

\* namespaceOf[id]: the part of a rule id before its '/'
namespaceOf ==
  [id \in RuleIds |->
     CASE id \in {"flaky/timing-dependency", "flaky/random-data", "flaky/async-without-await",
                  "flaky/shared-state", "flaky/network-dependency"} -> "flaky"
       [] id \in {"theater/no-assertions", "theater/always-true", "theater/empty-test",
                  "theater/console-only", "theater/expect-nothing"} -> "theater"
       [] id \in {"mock/excessive-mocking", "mock/mocking-what-you-test",
                  "mock/mock-return-ignores-input"} -> "mock"
       [] id \in {"assertion/weak-assertion", "assertion/no-error-assertion",
                  "assertion/single-assertion-syndrome"} -> "assertion"
       [] id \in {"isolation/test-order-dependency", "isolation/global-state",
                  "isolation/filesystem-side-effects"} -> "isolation"
       [] id \in {"maintain/poor-test-name", "maintain/deeply-nested",
                  "maintain/large-test-file", "maintain/magic-numbers",
                  "maintain/commented-test"} -> "maintain"
       [] id \in {"structure/missing-describe", "structure/arrange-act-assert",
                  "structure/multiple-acts"} -> "structure"]

\* violations.filter(v => v.ruleId.startsWith(category + '/'))
byIdPrefix(violations, category) ==
  SelectSeq(violations, LAMBDA v : namespaceOf[v.ruleId] = category)

\* the violations of the rules of a category
byRuleCategory(violations, category) ==
  SelectSeq(violations, LAMBDA v : findRule(v.ruleId).category = category)

\* C26: every rule of the catalog has a unique id category/name whose part
\* before the '/' is the rule's own category, so that selecting the violations
\* of a review by the id prefix of a category selects exactly the violations
\* of that category's rules, for each of the seven categories.
C26_IdNamespaceIsCategory ==
  pc = "returned" =>
    /\ \A i, j \in 1..Len(allRules) : allRules[i].id = allRules[j].id => i = j
    /\ \A i \in 1..Len(allRules) : namespaceOf[allRules[i].id] = allRules[i].category
    /\ \A category \in CategorySet :
         byIdPrefix(review[1].violations, category)
           = byRuleCategory(review[1].violations, category)

\* C27: in every report of a project run, whatever the number of discovered
\* files, zero included, summary.scoreBreakdown has exactly seven entries, one
\* for each category in the order of CATEGORY_WEIGHTS, each with that
\* category's fixed weight.
C27_SevenAggregateScores ==
  report # <<>> =>
    LET scoreBreakdown == report[1].summary.scoreBreakdown
    IN  /\ Len(scoreBreakdown) = Len(Categories)
        /\ \A i \in 1..Len(scoreBreakdown) :
             /\ scoreBreakdown[i].category = Categories[i]
             /\ scoreBreakdown[i].weight = CATEGORY_WEIGHTS[Categories[i]]

\* the paths of a list of files, in order
pathsOf(files) == [i \in 1..Len(files) |-> files[i].path]

\* C28: formatReviewReport, verbose or not, and formatAsJSON leave the report
\* unchanged: report.files keeps the discovery order, and every JSON rendered
\* before or after any text renderings is the JSON of the report as it is.
C28_FormattingLeavesReport ==
  Reported =>
    /\ pathsOf(report[1].files) = pathsOf(readableOf(testFiles))
    /\ report[1].files = reviewsOf(readableOf(testFiles), options)
    /\ \A i \in 1..Len(printed) :
         printed[i].kind = "json" => printed[i].text = formatAsJSON(report[1])

\* a JSON, a verbose text and a JSON again of a report whose first file is
\* not its worst
C28_Witness ==
  /\ Reported
  /\ Len(printed) = 3
  /\ printed[1].kind = "json"
  /\ printed[2].kind = "verbose"
  /\ printed[3].kind = "json"
  /\ printed[1].text = printed[3].text
  /\ Len(report[1].files) = 2
  /\ report[1].files[1].score > report[1].files[2].score

\* C29 as stated: for a fixed content, raising minSeverity never lowers the
\* file's score nor any of its category scores.
C29_StricterNeverScoresLower_AsStated ==
  pc = "returned" =>
    \A looser \in Looser :
      \A lenient \in {reviewTestFile(content, filename, looser)} :
        /\ review[1].score >= lenient.score
        /\ \A i \in 1..Len(Categories) :
             review[1].scoreBreakdown[i].score >= lenient.scoreBreakdown[i].score

\* C29, amended: for a fixed content, raising minSeverity never raises a
\* category's violation count, actualDeduction or maxDeduction, and lowers a
\* category's score only where it lowers the category's maxDeduction; the file
\* score is not lowered unless some category's maxDeduction is.
C29_StricterShrinksBudget ==
  pc = "returned" =>
    \A looser \in Looser :
      \A lenient \in {reviewTestFile(content, filename, looser)} :
        LET strict == review[1].scoreBreakdown
        IN  /\ \A i \in 1..Len(Categories) :
                 /\ strict[i].violations <= lenient.scoreBreakdown[i].violations
                 /\ strict[i].actualDeduction <= lenient.scoreBreakdown[i].actualDeduction
                 /\ strict[i].maxDeduction <= lenient.scoreBreakdown[i].maxDeduction
                 /\ strict[i].score < lenient.scoreBreakdown[i].score =>
                      strict[i].maxDeduction < lenient.scoreBreakdown[i].maxDeduction
            /\ review[1].score < lenient.score =>
                 \E i \in 1..Len(Categories) :
                   strict[i].maxDeduction < lenient.scoreBreakdown[i].maxDeduction

\* the same two always-true assertions rate the file worse under minSeverity
\* error than under info: the theater budget shrinks and the deduction stays
C29_Witness ==
  /\ pc = "returned"
  /\ content = <<AlwaysTrue>>
  /\ options = [minSeverity |-> "error"]
  /\ \E lenient \in {reviewTestFile(content, filename, [minSeverity |-> "info"])} :
       /\ review[1].violations = lenient.violations
       /\ review[1].score < lenient.score
       /\ review[1].scoreBreakdown[1].score < lenient.scoreBreakdown[1].score
       /\ review[1].scoreBreakdown[1].actualDeduction
            = lenient.scoreBreakdown[1].actualDeduction
       /\ review[1].scoreBreakdown[1].maxDeduction
            < lenient.scoreBreakdown[1].maxDeduction

\* C30: a review command that discovers no test file exits with a non-zero
\* status: the empty summary's overallScore of 0 is below the threshold of 50.
C30_NothingFoundExitsNonZero ==
  (pc = "exited" /\ report # <<>> /\ Len(testFiles) = 0) =>
    /\ report[1].summary.overallScore = 0
    /\ Len(exitCode) = 1
    /\ exitCode[1] # 0

\* nothing discovered, nothing wrong found, the report printed, and status 1
C30_Witness ==
  /\ pc = "exited"
  /\ report # <<>>
  /\ Len(testFiles) = 0
  /\ report[1].files = <<>>
  /\ report[1].summary.violationsBySeverity["error"] = 0
  /\ Len(printed) = 1
  /\ exitCode = <<1>>

====
